---- MODULE Spec2Model ----
(***************************************************************************)
(* Verification model of the Kerr black-hole renderer.                     *)
(*                                                                         *)
(*  - The per-ray geodesic integration loop and the pixel composite of the *)
(*    fragment shader (integrateGeodesicWithFeatures / rayMarch).          *)
(*  - The KerrMetric parameter object of the host code (setParameters and  *)
(*    the radii it reports).                                               *)
(*  - The accretion disk: its opacity along a ray and its temperature.     *)
(*  - The render loop: the uniforms of a frame, and the quality manager    *)
(*    with the performance monitor that drives it.                         *)
(*  - The guided tour: the time controller and its keyframe manager.       *)
(*                                                                         *)
(* Real numbers are fixed point with three decimals: 1.0 is written 1000.  *)
(* Float comparisons follow IEEE 754 (every comparison with NaN is false,  *)
(* r != r is true only for NaN), as the shader's own comments assume.      *)
(***************************************************************************)
EXTENDS Integers, Sequences, FiniteSets, TLC

VARIABLES
    \* ---- one ray of the fragment shader ----
    cfg,         \* the uniforms of the frame this ray belongs to
    pc,          \* "loop" | "returned" | "done"
    i,           \* the for-loop counter of the integrator
    steps,       \* number of rk4Step calls executed for this ray
    r,           \* Boyer-Lindquist radius of the geodesic state
    minRadius,   \* accumulator: minimum radius reached
    result,      \* RayOutcome
    finalDir,    \* "rayDir" (as passed in) | "recomputed" (escape branch)
    jetColor, ergoColor, diskColor, diskAlpha,   \* per-ray accumulators
    skyLookup,   \* direction handed to starfield(), "none" if not looked up
    finalColor,  \* rayMarch output colour
    \* ---- the host-side KerrMetric object ----
    km,          \* the object's fields: exists, M, a, a2
    lastCall,    \* the last constructor / setParameters call and how it ended
    lastGood,    \* arguments of the last call that returned normally
    \* ---- the host render loop and the GL command stream ----
    params,      \* simulation.params (the fields the frame reads)
    uniforms,    \* the uniform values of the 'main' program
    gpu,         \* the draw in flight: its uniforms, rays left, values rays read
    \* ---- an AccretionDisk object and its temperature queries ----
    disk,        \* the object's fields: M, a, innerRadius, T0
    temp,        \* the last temperature query: who computed it, r, result
    \* ---- the quality manager, the performance monitor and the loop ----
    qm,          \* QualityManager: levels, adaptive flag, frame counters
    pm,          \* PerformanceMonitor: metrics.fps, performanceState
    loop,        \* the simulation's life cycle: init, running, stopped, failed
    call,        \* the last operation on the quality manager and how it ended
    \* ---- the guided tour ----
    tour         \* TimeController and its KeyframeManager: state, clock, speed

rayVars == <<cfg, pc, i, steps, r, minRadius, result, finalDir,
             jetColor, ergoColor, diskColor, diskAlpha, skyLookup, finalColor>>
kmVars  == <<km, lastCall, lastGood>>
frameVars == <<params, uniforms, gpu>>
tempVars == <<disk, temp>>
qualityVars == <<qm, pm, loop, call>>
tourVars == <<tour>>
\* what the actions of one part of the program leave alone
notRayVars == <<kmVars, frameVars, tempVars, qualityVars, tourVars>>
notKmVars  == <<rayVars, frameVars, tempVars, qualityVars, tourVars>>
notFrameKmVars == <<rayVars, tempVars, qualityVars, tourVars>>
notFrameVars == <<kmVars, notFrameKmVars>>
notTempVars == <<rayVars, kmVars, frameVars, qualityVars, tourVars>>
notQualityVars == <<rayVars, kmVars, tempVars, uniforms, gpu, tourVars>>
notTourVars == <<rayVars, kmVars, tempVars, qualityVars, uniforms, gpu>>
vars    == <<rayVars, kmVars, frameVars, tempVars, qualityVars, tourVars>>

(***************************************************************************)
(* Fixed-point and float helpers                                           *)
(***************************************************************************)
One == 10 * 10 * 10
NaN == 0 - (10 ^ 6)

IsNaN(x) == x = NaN
FLt(x, y) == x # NaN /\ y # NaN /\ x < y
FGt(x, y) == FLt(y, x)
FGe(x, y) == x # NaN /\ y # NaN /\ x >= y
FLe(x, y) == FGe(y, x)
\* GLSL min(x, y): y if y < x, otherwise x
FMin(x, y) == IF FLt(y, x) THEN y ELSE x
FMul(x, y) == IF x = NaN \/ y = NaN THEN NaN ELSE (x * y) \div One
FAdd(x, y) == IF x = NaN \/ y = NaN THEN NaN ELSE x + y

RECURSIVE SqrtSearch(_, _, _)
SqrtSearch(n, lo, hi) ==
    IF lo >= hi THEN lo
    ELSE LET mid == (lo + hi + 1) \div 2
         IN  IF mid * mid <= n THEN SqrtSearch(n, mid, hi)
                               ELSE SqrtSearch(n, lo, mid - 1)
\* floor of the square root of a non-negative integer below 2^30
ISqrt(n) == SqrtSearch(n, 0, 32767)

Black == <<0, 0, 0>>
VAdd(u, v) == <<FAdd(u[1], v[1]), FAdd(u[2], v[2]), FAdd(u[3], v[3])>>
VScale(u, s) == <<FMul(u[1], s), FMul(u[2], s), FMul(u[3], s)>>
\* GLSL mix(x, y, a) = x*(1-a) + y*a
Mix(x, y, a) == VAdd(VScale(x, One - a), VScale(y, a))

(***************************************************************************)
(* Ray outcome codes                                                       *)
(***************************************************************************)
RAY_ACTIVE == 0
RAY_CAPTURED == 1
RAY_ESCAPED == 2
RAY_MAX_STEPS == 3

\* absolute bound of the integrator's for-loop
HardCap == 1000

RECURSIVE CbrtSearch(_, _, _)
CbrtSearch(n, lo, hi) ==
    IF lo >= hi THEN lo
    ELSE LET mid == (lo + hi + 1) \div 2
         IN  IF mid * mid * mid <= n THEN CbrtSearch(n, mid, hi)
                                     ELSE CbrtSearch(n, lo, mid - 1)
\* floor of the cube root of a non-negative integer below 2^31
ICbrt(n) == CbrtSearch(n, 0, 1290)

Abs(x) == IF x < 0 THEN 0 - x ELSE x
Clamp(x, lo, hi) == IF x < lo THEN lo ELSE IF x > hi THEN hi ELSE x

\* fixed-point square and cube root
FSqrt(x) == ISqrt((IF x > 0 THEN x ELSE 0) * One)
FCbrt(x) == ICbrt(x * One * One)

\* cos(acos(x) / 3) for x in [-1, 1]: the root c in [0.5, 1] of 4c^3 - 3c = x
RECURSIVE CosThirdSearch(_, _, _)
CosThirdSearch(x, lo, hi) ==
    IF lo >= hi THEN lo
    ELSE LET mid == (lo + hi + 1) \div 2
             \* 4c^3 - 3c <= x, scaled by One^3 / 4 so that nothing is rounded
             f   == mid * mid * mid - 750 * One * mid
         IN  IF f <= 250 * One * x THEN CosThirdSearch(x, mid, hi)
                       ELSE CosThirdSearch(x, lo, mid - 1)
CosThirdAcos(x) == CosThirdSearch(x, One \div 2, One)
\* cos((2/3) * acos(x)) = 2 * cos(acos(x)/3)^2 - 1
CosTwoThirdsAcos(x) == 2 * FMul(CosThirdAcos(x), CosThirdAcos(x)) - One

(***************************************************************************)
(* Shader metric functions (kerr-metric.glsl)                              *)
(***************************************************************************)
safeSqrt(x) == ISqrt(IF x > 0 THEN x ELSE 0)

\* M + safeSqrt(M*M - a*a)
eventHorizonRadius(M, a) == M + safeSqrt(M * M - a * a)

\* 3M for a = 0, else 2M(1 + cos(2/3 acos(-chi))), chi = clamp(a/M, -1, 1)
photonSphereRadius(M, a) ==
    IF a = 0 THEN 3 * M
    ELSE LET chi == Clamp((a * One) \div M, 0 - One, One)
         IN  FMul(2 * M, One + CosTwoThirdsAcos(0 - chi))

(***************************************************************************)
(* KerrMetric radius functions (host side); k is the object's fields       *)
(***************************************************************************)
KerrMetric_eventHorizonRadius(k) ==
    k.M + ISqrt(IF k.M * k.M - k.a2 * One > 0 THEN k.M * k.M - k.a2 * One ELSE 0)

KerrMetric_innerHorizonRadius(k) ==
    k.M - ISqrt(IF k.M * k.M - k.a2 * One > 0 THEN k.M * k.M - k.a2 * One ELSE 0)

\* cosTheta is cos(theta) in fixed point
KerrMetric_ergosphereRadius(k, cosTheta) ==
    LET c2 == FMul(cosTheta, cosTheta)
        d  == k.M * k.M - k.a2 * c2
    IN  k.M + ISqrt(IF d > 0 THEN d ELSE 0)

KerrMetric_Z1(k) ==
    LET chi  == (k.a * One) \div k.M
        chi2 == FMul(chi, chi)
    IN  One + FMul(FCbrt(One - chi2), FCbrt(One + chi) + FCbrt(Abs(One - chi)))

KerrMetric_Z2(k) ==
    LET chi  == (k.a * One) \div k.M
        chi2 == FMul(chi, chi)
        Z1   == KerrMetric_Z1(k)
    IN  FSqrt(3 * chi2 + FMul(Z1, Z1))

KerrMetric_iscoRadius(k) ==
    LET Z1 == KerrMetric_Z1(k)
        Z2 == KerrMetric_Z2(k)
    IN  FMul(k.M, 3 * One + Z2 - FSqrt(FMul(3 * One - Z1, 3 * One + Z1 + 2 * Z2)))

KerrMetric_iscoRadiusRetrograde(k) ==
    LET Z1 == KerrMetric_Z1(k)
        Z2 == KerrMetric_Z2(k)
    IN  FMul(k.M, 3 * One + Z2 + FSqrt(FMul(3 * One - Z1, 3 * One + Z1 + 2 * Z2)))

KerrMetric_photonSphereRadius(k) ==
    IF k.a = 0 THEN 3 * k.M
    ELSE LET chi == Clamp((k.a * One) \div k.M, 0 - One, One)
         IN  FMul(2 * k.M, One + CosTwoThirdsAcos(0 - chi))

getKeyRadii(k) ==
    [eventHorizon      |-> KerrMetric_eventHorizonRadius(k),
     innerHorizon      |-> KerrMetric_innerHorizonRadius(k),
     ergosphereEquator |-> KerrMetric_ergosphereRadius(k, 0),
     ergospherePole    |-> KerrMetric_ergosphereRadius(k, One),
     isco              |-> KerrMetric_iscoRadius(k),
     iscoRetrograde    |-> KerrMetric_iscoRadiusRetrograde(k),
     photonSphere      |-> KerrMetric_photonSphereRadius(k)]

\* the fields setParameters stores for (mass, spin)
KerrFields(mass, spin) ==
    [exists |-> TRUE, M |-> mass, a |-> spin, a2 |-> FMul(spin, spin)]

(***************************************************************************)
(* Simulation parameters and quality presets (simulation-params.js)        *)
(***************************************************************************)
\* getQualityLevels(): highest to lowest
getQualityLevels == <<"ultra", "high", "medium", "low", "potato">>
QualityLevels == {getQualityLevels[n] : n \in 1 .. Len(getQualityLevels)}

\* qualityPresets; resolution in hundredths, stepSize in fixed point
qualityPresets ==
    [level \in QualityLevels |->
        CASE level = "ultra" ->
               [resolution |-> 200, maxSteps |-> 1000, stepSize |-> 100,
                showJets |-> TRUE, showPhotonRing |-> TRUE,
                showErgosphere |-> TRUE, diskEnabled |-> TRUE]
          [] level = "high" ->
               [resolution |-> 100, maxSteps |-> 800, stepSize |-> 150,
                showJets |-> TRUE, showPhotonRing |-> TRUE,
                showErgosphere |-> TRUE, diskEnabled |-> TRUE]
          [] level = "medium" ->
               [resolution |-> 75, maxSteps |-> 500, stepSize |-> 200,
                showJets |-> TRUE, showPhotonRing |-> TRUE,
                showErgosphere |-> FALSE, diskEnabled |-> TRUE]
          [] level = "low" ->
               [resolution |-> 50, maxSteps |-> 300, stepSize |-> 300,
                showJets |-> FALSE, showPhotonRing |-> TRUE,
                showErgosphere |-> FALSE, diskEnabled |-> TRUE]
          [] level = "potato" ->
               [resolution |-> 33, maxSteps |-> 150, stepSize |-> 400,
                showJets |-> FALSE, showPhotonRing |-> FALSE,
                showErgosphere |-> FALSE, diskEnabled |-> TRUE]]

\* defaultParams, the fields the render loop, the quality manager and the
\* frame update use
defaultParams ==
    [mass |-> One, spin |-> 900,
     maxSteps |-> 800, stepSize |-> 150, resolution |-> 100,
     diskEnabled |-> TRUE, showJets |-> TRUE, showPhotonRing |-> TRUE,
     showErgosphere |-> TRUE, currentLevel |-> "high",
     autoRotate |-> FALSE, rotationSpeed |-> One \div 10, cameraPhi |-> 0]

\* slip: the preset is applied without recording the level in params
applyQualityPreset_LevelNotRecorded(p, level) ==
    LET preset == qualityPresets[level]
    IN  [p EXCEPT !.maxSteps = preset.maxSteps,
                  !.stepSize = preset.stepSize,
                  !.resolution = preset.resolution,
                  !.showJets = preset.showJets,
                  !.showPhotonRing = preset.showPhotonRing,
                  !.showErgosphere = preset.showErgosphere,
                  !.diskEnabled = preset.diskEnabled]

\* QualityManager._applyQualityPreset: the assignments it makes to params
applyQualityPreset(p, level) ==
    LET preset == qualityPresets[level]
    IN  [p EXCEPT !.maxSteps = preset.maxSteps,
                  !.stepSize = preset.stepSize,
                  !.resolution = preset.resolution,
                  !.showJets = preset.showJets,
                  !.showPhotonRing = preset.showPhotonRing,
                  !.showErgosphere = preset.showErgosphere,
                  !.diskEnabled = preset.diskEnabled,
                  !.currentLevel = level]

(***************************************************************************)
(* One ray: integrateGeodesicWithFeatures and rayMarch                     *)
(***************************************************************************)
\* model bounds
MaxDetailSteps == 2

\* u_maxSteps values: the highest and the lowest quality preset, then values
\* no preset produces (negative, zero and tiny budgets, twice the hard cap)
PresetMaxSteps == {1000, 150}
OtherMaxSteps  == {0 - 1, 2 * HardCap} \cup (0 .. MaxDetailSteps)
MaxStepsVals   == PresetMaxSteps \cup OtherMaxSteps

SpinVals == {0, 900}
DefaultEscapeRadius == 50 * One
EscapeRadiusVals == {DefaultEscapeRadius, One}
DiskOuterRadius == 25 * One

\* Frames with feature sampling or a non-default escape radius are explored
\* for step budgets up to MaxDetailSteps; plain frames for every budget.
RayConfigs ==
    { c \in [maxSteps : MaxStepsVals, M : {One}, a : SpinVals,
             escapeRadius : EscapeRadiusVals,
             showDisk : BOOLEAN, showJets : BOOLEAN,
             showErgosphere : BOOLEAN, showPhotonRing : BOOLEAN] :
        c.maxSteps > MaxDetailSteps =>
            /\ c.escapeRadius = DefaultEscapeRadius
            /\ ~c.showDisk /\ ~c.showJets /\ ~c.showErgosphere
            /\ ~c.showPhotonRing }

rH  == eventHorizonRadius(cfg.M, cfg.a)
rPh == photonSphereRadius(cfg.M, cfg.a)
\* u_diskInnerRadius: the ISCO radius when no inner radius is configured
u_diskInnerRadius == KerrMetric_iscoRadius(KerrFields(cfg.M, cfg.a))

\* radii a geodesic can have: inside the horizon, inside the capture band
\* (r_H, 1.001 r_H), near the horizon, in the disk, beyond the escape radius
RInitVals == {NaN, 0, rH + 1, rH + 500, 10 * One, 60 * One}
\* what rk4Step can leave in r: r += h * (k1 + 2 k2 + 2 k3 + k4) / 6 is NaN
\* when r is NaN, and otherwise any float, negative and NaN included
rk4Step(x) ==
    IF IsNaN(x) THEN {NaN}
    ELSE {NaN, 0 - 500, rH - 500, rH + 1, rH + 500, 10 * One, 60 * One}

\* samples of the feature functions (colours in fixed point)
JetSamples   == {Black, <<100, 150, 300>>}
ErgoSamples  == {Black, <<200, 0, 300>>}
DiskEmissions == {Black, <<1000, 600, 200>>}
OpticalDepths == {One \div 2, One - 1}
DiskBoosts    == {One, 2 * One}

\* slip: the loop bound written as i <= 1000
LoopCond_OffByOne(n) == n <= HardCap
\* the for-loop condition i < 1000
LoopCond(n) == n < HardCap
\* slip: the budget test written as i > maxSteps
BudgetUsed_OffByOne(n, maxSteps) == n > maxSteps
\* if (i >= maxSteps)
BudgetUsed(n, maxSteps) == n >= maxSteps
\* slip: the capture test without the 1.001 margin
CaptureTest_NoMargin(x, horizon) == x # NaN /\ x < horizon
\* if (r < rH * 1.001)
CaptureTest(x, horizon) == x # NaN /\ x * 1000 < horizon * 1001
\* slip: the escape test against u_maxDistance instead of escapeRadius
EscapeTest_MaxDistance(x, escapeRadius) == FGt(x, 100 * One)
\* if (r > escapeRadius)
EscapeTest(x, escapeRadius) == FGt(x, escapeRadius)
\* slip: the safety test without the NaN comparison
InvalidR_NoNaNTest(x) == FLt(x, 0)
\* if (r < 0.0 || r != r)
InvalidR(x) == FLt(x, 0) \/ IsNaN(x)

RayInit ==
    /\ cfg \in RayConfigs
    /\ pc = "loop"
    /\ i = 0
    /\ steps = 0
    /\ r \in RInitVals
    /\ minRadius = r
    /\ result = RAY_ACTIVE
    /\ finalDir = "rayDir"
    /\ jetColor = Black /\ ergoColor = Black
    /\ diskColor = Black /\ diskAlpha = 0
    /\ skyLookup = "none"
    /\ finalColor = Black
    \* no metric object takes part in a ray
    /\ km = [exists |-> FALSE, M |-> 0, a |-> 0, a2 |-> 0]
    /\ lastCall = [op |-> "none", mass |-> 0, spin |-> 0, threw |-> FALSE]
    /\ lastGood = [mass |-> 0, spin |-> 0]
    \* no frame loop runs around it
    /\ params = defaultParams /\ uniforms = [set |-> FALSE] /\ gpu = [active |-> FALSE]
    /\ qm = [exists |-> FALSE] /\ pm = [exists |-> FALSE]
    /\ loop = [phase |-> "none"] /\ call = [op |-> "none"]
    /\ tour = [exists |-> FALSE]
    /\ disk = [exists |-> FALSE] /\ temp = [by |-> "none"]

\* slip: the outcome is recorded but the loop is not left
Return_KeepsLooping(code) ==
    /\ result' = code
    /\ pc' = "loop"

\* return code;
Return(code) ==
    /\ result' = code
    /\ pc' = "returned"

\* if (i >= maxSteps) return RAY_MAX_STEPS;
CheckMaxSteps ==
    /\ UNCHANGED notRayVars
    /\ pc = "loop" /\ LoopCond(i)
    /\ BudgetUsed(i, cfg.maxSteps)
    /\ Return(RAY_MAX_STEPS)
    /\ UNCHANGED <<cfg, i, steps, r, minRadius, finalDir, jetColor, ergoColor,
                   diskColor, diskAlpha, skyLookup, finalColor>>

\* minRadius = min(minRadius, r); if (r < rH * 1.001) return RAY_CAPTURED;
CheckCaptured ==
    /\ UNCHANGED notRayVars
    /\ pc = "loop" /\ LoopCond(i)
    /\ ~BudgetUsed(i, cfg.maxSteps)
    /\ minRadius' = FMin(minRadius, r)
    /\ CaptureTest(r, rH)
    /\ Return(RAY_CAPTURED)
    /\ UNCHANGED <<cfg, i, steps, r, finalDir, jetColor, ergoColor,
                   diskColor, diskAlpha, skyLookup, finalColor>>

\* slip: the escape branch returns without recomputing finalDir
CheckEscaped_KeepsRayDir ==
    /\ UNCHANGED notRayVars
    /\ pc = "loop" /\ LoopCond(i)
    /\ ~BudgetUsed(i, cfg.maxSteps)
    /\ minRadius' = FMin(minRadius, r)
    /\ ~CaptureTest(r, rH)
    /\ EscapeTest(r, cfg.escapeRadius)
    /\ Return(RAY_ESCAPED)
    /\ UNCHANGED <<cfg, i, steps, r, finalDir, jetColor, ergoColor,
                   diskColor, diskAlpha, skyLookup, finalColor>>

\* if (r > escapeRadius) { finalDir = normalize(...); return RAY_ESCAPED; }
CheckEscaped ==
    /\ UNCHANGED notRayVars
    /\ pc = "loop" /\ LoopCond(i)
    /\ ~BudgetUsed(i, cfg.maxSteps)
    /\ minRadius' = FMin(minRadius, r)
    /\ ~CaptureTest(r, rH)
    /\ EscapeTest(r, cfg.escapeRadius)
    /\ finalDir' = "recomputed"
    /\ Return(RAY_ESCAPED)
    /\ UNCHANGED <<cfg, i, steps, r, jetColor, ergoColor,
                   diskColor, diskAlpha, skyLookup, finalColor>>

\* jetColor += sampleJet(...) * (1.0 - diskAlpha)
SampleJets ==
    IF cfg.showJets
    THEN \E s \in JetSamples : jetColor' = VAdd(jetColor, VScale(s, One - diskAlpha))
    ELSE jetColor' = jetColor

\* ergoColor += ergosphereVisualization(...) * 0.1
SampleErgosphere ==
    IF cfg.showErgosphere
    THEN \E s \in ErgoSamples : ergoColor' = VAdd(ergoColor, VScale(s, One \div 10))
    ELSE ergoColor' = ergoColor

\* slip: the local opacity is not weighted by the remaining transparency
diskLocalAlpha_Unweighted(opticalDepth, accumulated) == FMin(opticalDepth, 950)
\* alpha = opticalDepth * (1.0 - diskAlpha); alpha = min(alpha, 0.95)
diskLocalAlpha(opticalDepth, accumulated) ==
    FMin(FMul(opticalDepth, One - accumulated), 950)

\* the disk block with optical depths drawn from depths: emission
\* composited front to back
DiskBlock(depths) ==
    \/ /\ cfg.showDisk /\ diskAlpha < 995
       /\ FGe(r * 100, u_diskInnerRadius * 95)
       /\ FLe(r * 10, DiskOuterRadius * 11)
       /\ \E emission \in DiskEmissions, opticalDepth \in depths,
             boost \in DiskBoosts :
            LET alpha == diskLocalAlpha(opticalDepth, diskAlpha)
            IN  /\ diskColor' = VAdd(diskColor, VScale(VScale(emission, alpha), boost))
                /\ diskAlpha' = diskAlpha + FMul(alpha, 800)
    \/ \* disk off, opaque, out of radial range, or no equator crossing here
       /\ UNCHANGED <<diskColor, diskAlpha>>

SampleDisk == DiskBlock(OpticalDepths)

\* the part of an iteration after the termination checks, up to rk4Step
StepBody ==
    /\ pc = "loop" /\ LoopCond(i)
    /\ ~BudgetUsed(i, cfg.maxSteps)
    /\ minRadius' = FMin(minRadius, r)
    /\ ~CaptureTest(r, rH)
    /\ ~EscapeTest(r, cfg.escapeRadius)
    /\ SampleJets
    /\ SampleErgosphere
    /\ SampleDisk
    /\ steps' = steps + 1
    /\ r' \in rk4Step(r)

\* rk4Step left a valid r: next iteration
StepContinue ==
    /\ UNCHANGED notRayVars
    /\ StepBody
    /\ ~InvalidR(r')
    /\ i' = i + 1
    /\ UNCHANGED <<cfg, pc, result, finalDir, skyLookup, finalColor>>

\* if (r < 0.0 || r != r) return RAY_CAPTURED;
StepInvalid ==
    /\ UNCHANGED notRayVars
    /\ StepBody
    /\ InvalidR(r')
    /\ Return(RAY_CAPTURED)
    /\ UNCHANGED <<cfg, i, finalDir, skyLookup, finalColor>>

\* the for-loop ran out: return RAY_MAX_STEPS after the loop
LoopExhausted ==
    /\ UNCHANGED notRayVars
    /\ pc = "loop" /\ ~LoopCond(i)
    /\ Return(RAY_MAX_STEPS)
    /\ UNCHANGED <<cfg, i, steps, r, minRadius, finalDir, jetColor, ergoColor,
                   diskColor, diskAlpha, skyLookup, finalColor>>

(***************************************************************************)
(* Disk compositing along one ray, crossing after crossing                 *)
(***************************************************************************)
\* model bound: iterations of the loop followed while the ray is in the disk
MaxCrossings == 5

\* opticalDepth = 1 - exp(-pathLength * 10) with 0 <= pathLength < 4: from 0
\* up to 1.0 itself (1 - exp(-40) rounds to 1.0 in a float)
DiskOpticalDepths == {0, One \div 2, One - 1, One}
\* integrateGeodesicWithDisk: 1 - exp(-pathLength * 5) with pathLength < 2
DiskOpticalDepths2 == {0, One \div 2, 993, One - 1}

\* a ray inside the radial range of the disk, diskAlpha = 0.0 as both
\* integrators initialise it; pc names the integrator that runs
DiskInit ==
    /\ cfg \in [maxSteps : {HardCap}, M : {One}, a : SpinVals,
               escapeRadius : {DefaultEscapeRadius},
               showDisk : {TRUE}, showJets : {FALSE},
               showErgosphere : {FALSE}, showPhotonRing : {FALSE}]
    /\ pc \in {"disk", "disk2"}
    /\ i = 0 /\ steps = 0
    /\ r = 10 * One /\ minRadius = r
    /\ result = RAY_ACTIVE /\ finalDir = "rayDir"
    /\ jetColor = Black /\ ergoColor = Black
    /\ diskColor = Black /\ diskAlpha = 0
    /\ skyLookup = "none" /\ finalColor = Black
    /\ km = [exists |-> FALSE, M |-> 0, a |-> 0, a2 |-> 0]
    /\ lastCall = [op |-> "none", mass |-> 0, spin |-> 0, threw |-> FALSE]
    /\ lastGood = [mass |-> 0, spin |-> 0]
    /\ params = defaultParams /\ uniforms = [set |-> FALSE] /\ gpu = [active |-> FALSE]
    /\ qm = [exists |-> FALSE] /\ pm = [exists |-> FALSE]
    /\ loop = [phase |-> "none"] /\ call = [op |-> "none"]
    /\ tour = [exists |-> FALSE]
    /\ disk = [exists |-> FALSE] /\ temp = [by |-> "none"]

\* one loop iteration of integrateGeodesicWithFeatures, its disk block only
DiskCrossing ==
    /\ pc = "disk" /\ steps < MaxCrossings
    /\ DiskBlock(DiskOpticalDepths)
    /\ steps' = steps + 1
    /\ UNCHANGED <<cfg, pc, i, r, minRadius, result, finalDir, jetColor,
                   ergoColor, skyLookup, finalColor>>
    /\ UNCHANGED notRayVars

\* one loop iteration of integrateGeodesicWithDisk, its disk block only
DiskCrossing2 ==
    /\ pc = "disk2" /\ steps < MaxCrossings
    /\ \/ /\ cfg.showDisk /\ diskAlpha < 990
          /\ FGe(r, u_diskInnerRadius) /\ FLe(r, DiskOuterRadius)
          /\ \E emission \in DiskEmissions, opticalDepth \in DiskOpticalDepths2 :
               LET alpha == FMul(opticalDepth, One - diskAlpha)
               IN  /\ diskColor' = VAdd(diskColor, VScale(emission, alpha))
                   /\ diskAlpha' = diskAlpha + alpha
       \/ UNCHANGED <<diskColor, diskAlpha>>
    /\ steps' = steps + 1
    /\ UNCHANGED <<cfg, pc, i, r, minRadius, result, finalDir, jetColor,
                   ergoColor, skyLookup, finalColor>>
    /\ UNCHANGED notRayVars

(***************************************************************************)
(* rayMarch: the composite of one pixel                                    *)
(***************************************************************************)
\* starfield(dir): the background is pure black in every direction
starfield(dir) == Black

\* calculatePhotonRing: zero outside 0 <= proximity <= 4, where
\* proximity = (minRadius - rH) / (rPh - rH); inside, the soft glow
\* exp(-2 |minRadius - rPh| / M) * 0.8 keeps the colour strictly positive
PhotonRingGlow == <<900, 300, 50>>
calculatePhotonRing(minR, M, a) ==
    LET horizon == eventHorizonRadius(M, a)
        sphere  == photonSphereRadius(M, a)
    IN  IF IsNaN(minR) THEN <<NaN, NaN, NaN>>
        ELSE IF minR - horizon < 0 \/ minR - horizon > 4 * (sphere - horizon)
        THEN Black
        ELSE PhotonRingGlow

\* slip: the glow without the edgeProximity > 0 test
shadowEdgeGlow_NoLowerBound(res, minR, horizon) ==
    IF res = RAY_CAPTURED /\ FLt(minR * 2, horizon * 3)
    THEN LET edgeProximity == ((minR - horizon) * 2 * One) \div horizon
             w == One - edgeProximity
         IN  IF minR # NaN /\ edgeProximity < One
             THEN VScale(<<1000, 600, 300>>, 2 * FMul(FMul(w, w), w))
             ELSE Black
    ELSE Black

\* shadow edge glow of a captured ray whose closest approach lies in
\* (rH, 1.5 rH): glowColor * pow(1 - edgeProximity, 3) * 2
shadowEdgeGlow(res, minR, horizon) ==
    IF res = RAY_CAPTURED /\ FLt(minR * 2, horizon * 3)
    THEN LET edgeProximity == ((minR - horizon) * 2 * One) \div horizon
             w == One - edgeProximity
         IN  IF edgeProximity > 0 /\ edgeProximity < One
             THEN VScale(<<1000, 600, 300>>, 2 * FMul(FMul(w, w), w))
             ELSE Black
    ELSE Black

\* slip: the disk is blended over the background first and the glows added
\* on top of it
RayMarchComposite_DiskUnderneath ==
    /\ UNCHANGED notRayVars
    /\ pc = "returned"
    /\ LET backgroundColor == IF result = RAY_CAPTURED THEN Black
                              ELSE starfield(finalDir)
           photonRingColor == IF cfg.showPhotonRing
                              THEN calculatePhotonRing(minRadius, cfg.M, cfg.a)
                              ELSE Black
           under == Mix(VAdd(backgroundColor, shadowEdgeGlow(result, minRadius, rH)),
                        diskColor, diskAlpha)
       IN  /\ skyLookup' = IF result = RAY_CAPTURED THEN "none" ELSE finalDir
           /\ finalColor' = VAdd(VAdd(VAdd(under, ergoColor), jetColor), photonRingColor)
    /\ pc' = "done"
    /\ UNCHANGED <<cfg, i, steps, r, minRadius, result, finalDir,
                   jetColor, ergoColor, diskColor, diskAlpha>>

\* rayMarch after the integrator returned: the layers, back to front
RayMarchComposite ==
    /\ UNCHANGED notRayVars
    /\ pc = "returned"
    /\ LET backgroundColor == IF result = RAY_CAPTURED THEN Black
                              ELSE starfield(finalDir)
           photonRingColor == IF cfg.showPhotonRing
                              THEN calculatePhotonRing(minRadius, cfg.M, cfg.a)
                              ELSE Black
           layers == VAdd(VAdd(VAdd(VAdd(backgroundColor,
                                         shadowEdgeGlow(result, minRadius, rH)),
                                    ergoColor), jetColor), photonRingColor)
       IN  /\ skyLookup' = IF result = RAY_CAPTURED THEN "none" ELSE finalDir
           /\ finalColor' = Mix(layers, diskColor, diskAlpha)
    /\ pc' = "done"
    /\ UNCHANGED <<cfg, i, steps, r, minRadius, result, finalDir,
                   jetColor, ergoColor, diskColor, diskAlpha>>

(***************************************************************************)
(* KerrMetric: constructor and setParameters                               *)
(***************************************************************************)
NoMetric == [exists |-> FALSE, M |-> 0, a |-> 0, a2 |-> 0]

\* slip: an out-of-range spin is clamped to [-M, M] instead of rejected
setParameters_Clamps(k, mass, spin) ==
    IF mass <= 0 THEN [threw |-> TRUE, obj |-> k]
    ELSE LET s == Clamp(spin, 0 - mass, mass)
         IN  [threw |-> FALSE,
              obj |-> [exists |-> TRUE, M |-> mass, a |-> s, a2 |-> FMul(s, s)]]

\* slip: the fields are assigned before the arguments are validated
setParameters_AssignsFirst(k, mass, spin) ==
    [threw |-> (mass <= 0 \/ Abs(spin) > mass),
     obj |-> [exists |-> TRUE, M |-> mass, a |-> spin, a2 |-> FMul(spin, spin)]]

\* setParameters(mass, spin) on object fields k: validate, then assign
setParameters(k, mass, spin) ==
    IF mass <= 0 THEN [threw |-> TRUE, obj |-> k]
    ELSE IF Abs(spin) > mass THEN [threw |-> TRUE, obj |-> k]
    ELSE [threw |-> FALSE,
          obj |-> [exists |-> TRUE, M |-> mass, a |-> spin, a2 |-> FMul(spin, spin)]]

MassVals == {0 - One, 0, One, 2 * One}
KmSpinVals == {0 - 2500, 0 - 2000, 0 - 1000, 0 - 900, 0, 500, 900, One,
               1500, 2000, 2500}

\* before the first constructor call; no ray is in flight
KmInit ==
    /\ km = NoMetric
    /\ lastCall = [op |-> "none", mass |-> 0, spin |-> 0, threw |-> FALSE]
    /\ lastGood = [mass |-> 0, spin |-> 0]
    /\ cfg = [maxSteps |-> 0, M |-> One, a |-> 0, escapeRadius |-> DefaultEscapeRadius,
              showDisk |-> FALSE, showJets |-> FALSE,
              showErgosphere |-> FALSE, showPhotonRing |-> FALSE]
    /\ pc = "idle" /\ i = 0 /\ steps = 0 /\ r = 0 /\ minRadius = 0
    /\ result = RAY_ACTIVE /\ finalDir = "rayDir"
    /\ jetColor = Black /\ ergoColor = Black /\ diskColor = Black /\ diskAlpha = 0
    /\ skyLookup = "none" /\ finalColor = Black
    /\ params = defaultParams /\ uniforms = [set |-> FALSE] /\ gpu = [active |-> FALSE]
    /\ qm = [exists |-> FALSE] /\ pm = [exists |-> FALSE]
    /\ loop = [phase |-> "none"] /\ call = [op |-> "none"]
    /\ tour = [exists |-> FALSE]
    /\ disk = [exists |-> FALSE] /\ temp = [by |-> "none"]

\* this.kerrMetric = new KerrMetric(mass, spin): a throwing constructor
\* leaves the reference (and the object it points to) as it was
Construct(mass, spin) ==
    LET res == setParameters(NoMetric, mass, spin)
    IN  /\ UNCHANGED notKmVars
        /\ km' = IF res.threw THEN km ELSE res.obj
        /\ lastCall' = [op |-> "new", mass |-> mass, spin |-> spin, threw |-> res.threw]
        /\ lastGood' = IF res.threw THEN lastGood ELSE [mass |-> mass, spin |-> spin]

\* kerrMetric.setParameters(mass, spin) on the existing object
SetParameters(mass, spin) ==
    /\ UNCHANGED notKmVars
    /\ km.exists
    /\ LET res == setParameters(km, mass, spin)
       IN  /\ km' = res.obj
           /\ lastCall' = [op |-> "set", mass |-> mass, spin |-> spin, threw |-> res.threw]
           /\ lastGood' = IF res.threw THEN lastGood ELSE [mass |-> mass, spin |-> spin]

(***************************************************************************)
(* AccretionDisk: constructor and temperature (accretion-disk.js), and the *)
(* shader's diskTemperatureNT.  Temperatures are in kilokelvin.            *)
(***************************************************************************)
NoDisk == [exists |-> FALSE]
NoTemp == [by |-> "none"]

\* x^(1/4) and x^(-3/4) in fixed point, x > 0
QuarterRoot(x) == FSqrt(FSqrt(x))
InvThreeQuarterPow(x) == (One * One * One) \div (FSqrt(x) * QuarterRoot(x))

\* calculateISCO(): the formula of KerrMetric.iscoRadius on (M, a)
calculateISCO(mass, spin) == KerrMetric_iscoRadius(KerrFields(mass, spin))

\* new AccretionDisk(mass, spin, innerRadius, outerRadius, peakTemperature):
\* innerRadius || calculateISCO(); 0 stands for null as well
AccretionDisk(mass, spin, innerRadius, peakTemperature) ==
    [exists |-> TRUE, M |-> mass, a |-> spin, T0 |-> peakTemperature,
     innerRadius |-> IF innerRadius = 0 THEN calculateISCO(mass, spin)
                     ELSE innerRadius]

\* AccretionDisk.temperature(r)
temperature(d, rad) ==
    IF rad <= d.innerRadius THEN 0
    ELSE LET x     == (rad * One) \div d.M
             xISCO == (d.innerRadius * One) \div d.M
             f     == One - FSqrt((xISCO * One) \div x)
         IN  IF f <= 0 THEN 0
             ELSE LET t == FMul(FMul(d.T0, InvThreeQuarterPow(x)), QuarterRoot(f))
                  IN  IF t < d.T0 THEN t ELSE d.T0

\* the shader's cap: clamp(temp, 0.0, 50000.0)
ShaderTemperatureCap == 50

\* diskTemperatureNT(r, rISCO, T0, M, a)
diskTemperatureNT(rad, rISCO, T0, M, a) ==
    IF rad * 1000 <= rISCO * 1001 THEN 0
    ELSE LET x     == FSqrt((rad * One) \div M)
             xISCO == FSqrt((rISCO * One) \div M)
             aStar == (a * One) \div M
             f     == One - (xISCO * One) \div x
             y     == FMul(x, x)
         IN  IF f <= 0 THEN 0
             ELSE LET correction == One + (aStar * One) \div FMul(y, FSqrt(y))
                      Q == FMul(f, correction)
                      t == FMul(FMul(T0, InvThreeQuarterPow(y)),
                                QuarterRoot(IF Q > 0 THEN Q ELSE 0))
                  IN  Clamp(t, 0, ShaderTemperatureCap)

\* constructor arguments and radii asked about
DiskInnerRadii == {0, One \div 4, 3 * One, 6 * One, 10 * One}
PeakTemperatures == {10 * One, 30 * One}
TempRadii == {0, One \div 2, 2 * One, 5 * One, 6 * One, 6 * One + 3,
              6 * One + 500, 10 * One, 12 * One, 20 * One}

\* no disk object yet; nothing else runs
TempInit ==
    /\ disk = NoDisk /\ temp = NoTemp
    /\ cfg = [maxSteps |-> 0, M |-> One, a |-> 0, escapeRadius |-> DefaultEscapeRadius,
              showDisk |-> FALSE, showJets |-> FALSE,
              showErgosphere |-> FALSE, showPhotonRing |-> FALSE]
    /\ pc = "idle" /\ i = 0 /\ steps = 0 /\ r = 0 /\ minRadius = 0
    /\ result = RAY_ACTIVE /\ finalDir = "rayDir"
    /\ jetColor = Black /\ ergoColor = Black /\ diskColor = Black /\ diskAlpha = 0
    /\ skyLookup = "none" /\ finalColor = Black
    /\ km = [exists |-> FALSE, M |-> 0, a |-> 0, a2 |-> 0]
    /\ lastCall = [op |-> "none", mass |-> 0, spin |-> 0, threw |-> FALSE]
    /\ lastGood = [mass |-> 0, spin |-> 0]
    /\ params = defaultParams /\ uniforms = [set |-> FALSE] /\ gpu = [active |-> FALSE]
    /\ qm = [exists |-> FALSE] /\ pm = [exists |-> FALSE]
    /\ loop = [phase |-> "none"] /\ call = [op |-> "none"]
    /\ tour = [exists |-> FALSE]

NewAccretionDisk(mass, spin, innerRadius, peakTemperature) ==
    /\ disk' = AccretionDisk(mass, spin, innerRadius, peakTemperature)
    /\ temp' = NoTemp
    /\ UNCHANGED notTempVars

\* disk.temperature(r)
Temperature(rad) ==
    /\ disk.exists
    /\ temp' = [by |-> "js", r |-> rad, T |-> temperature(disk, rad)]
    /\ UNCHANGED <<disk, notTempVars>>

\* the shader's temperature at r for the same disk: rISCO is the
\* u_diskInnerRadius uniform, T0 the u_diskTemperature uniform
ShaderTemperature(rad) ==
    /\ disk.exists
    /\ temp' = [by |-> "glsl", r |-> rad,
                T |-> diskTemperatureNT(rad, disk.innerRadius, disk.T0, disk.M, disk.a)]
    /\ UNCHANGED <<disk, notTempVars>>

(***************************************************************************)
(* The render loop: one frame at a time (main.js)                          *)
(***************************************************************************)
\* model bound: rays (pixels) of one frame
RaysPerFrame == 2

\* values events hand to the simulation
FrameSpinVals == {0, 900}
\* spins a caller passes to setBlackHoleParams: the animated ones and one
\* with |a| > M
CallSpinVals == FrameSpinVals \cup {(3 * One) \div 2}
FrameLevels == {"high", "potato"}
ToggleNames == {"diskEnabled", "showJets", "showPhotonRing", "showErgosphere"}

\* the tour is not playing: timeController.update writes nothing
NotPlaying == 0 - 1
NoUniforms == [set |-> FALSE]
NoDraw == [active |-> FALSE]

\* _render: the black-hole parameters, integrator settings and feature
\* toggles among the uniform values it computes from params
RenderUniforms(p) ==
    [set |-> TRUE,
     u_mass |-> p.mass, u_spin |-> p.spin,
     u_stepSize |-> p.stepSize, u_maxSteps |-> p.maxSteps,
     u_showDisk |-> p.diskEnabled,
     u_showJets |-> p.showJets, u_showPhotonRing |-> p.showPhotonRing,
     u_showErgosphere |-> p.showErgosphere]

\* kerrMetric.iscoRadius() for the spins the metric can hold in these
\* runs (its mass is M = 1 throughout), computed once
MetricIsco == [a \in FrameSpinVals |-> KerrMetric_iscoRadius(KerrFields(One, a))]

\* _render: diskInnerRadius = params.accretionDisk.innerRadius ||
\* kerrMetric.iscoRadius(), with no inner radius configured (null)
diskInnerRadius(k) == MetricIsco[k.a]

\* a started simulation: default params, the metric built from them, no
\* frame drawn yet; no single ray is followed
FrameInit ==
    /\ params = defaultParams
    /\ uniforms = NoUniforms
    /\ gpu = NoDraw
    /\ qm = [exists |-> FALSE] /\ pm = [exists |-> FALSE]
    /\ loop = [phase |-> "none"] /\ call = [op |-> "none"]
    /\ tour = [exists |-> FALSE]
    /\ km = KerrFields(defaultParams.mass, defaultParams.spin)
    /\ lastCall = [op |-> "new", mass |-> defaultParams.mass,
                   spin |-> defaultParams.spin, threw |-> FALSE]
    /\ lastGood = [mass |-> defaultParams.mass, spin |-> defaultParams.spin]
    /\ cfg = [maxSteps |-> 0, M |-> One, a |-> 0, escapeRadius |-> DefaultEscapeRadius,
              showDisk |-> FALSE, showJets |-> FALSE,
              showErgosphere |-> FALSE, showPhotonRing |-> FALSE]
    /\ pc = "idle" /\ i = 0 /\ steps = 0 /\ r = 0 /\ minRadius = 0
    /\ result = RAY_ACTIVE /\ finalDir = "rayDir"
    /\ jetColor = Black /\ ergoColor = Black /\ diskColor = Black /\ diskAlpha = 0
    /\ skyLookup = "none" /\ finalColor = Black
    /\ disk = [exists |-> FALSE] /\ temp = [by |-> "none"]

\* _renderLoop, one task of the main thread: _update (a playing tour writes
\* animated values into params), _render (uniforms from params, then the
\* draw call), qualityManager.update (may apply another preset).  Commands
\* of the GL stream run in issue order, so the uniform writes of a frame
\* take effect after the draw of the frame before it has completed.
RenderLoop(animSpin, level) ==
    LET p1 == IF animSpin = NotPlaying THEN params ELSE [params EXCEPT !.spin = animSpin]
        u  == RenderUniforms(p1)
        p2 == IF level = "none" THEN p1 ELSE applyQualityPreset(p1, level)
    IN  /\ ~gpu.active
        /\ uniforms' = u
        /\ gpu' = [active |-> TRUE, u |-> u, raysLeft |-> RaysPerFrame, used |-> {},
                   u_diskInnerRadius |-> diskInnerRadius(km)]
        /\ params' = p2
        /\ UNCHANGED notFrameVars

\* slip: the shader invocation reads the host's params when it runs
EvaluateRay_ReadsLiveParams ==
    /\ gpu.active /\ gpu.raysLeft > 0
    /\ gpu' = [gpu EXCEPT !.raysLeft = @ - 1,
                          !.used = @ \cup {RenderUniforms(params)}]
    /\ UNCHANGED <<params, uniforms, notFrameVars>>

\* one fragment-shader invocation of the draw in flight: it reads the
\* uniform values the draw was issued with
EvaluateRay ==
    /\ gpu.active /\ gpu.raysLeft > 0
    /\ gpu' = [gpu EXCEPT !.raysLeft = @ - 1, !.used = @ \cup {gpu.u}]
    /\ UNCHANGED <<params, uniforms, notFrameVars>>

\* the draw has shaded every pixel
FrameDone ==
    /\ gpu.active /\ gpu.raysLeft = 0
    /\ gpu' = NoDraw
    /\ UNCHANGED <<params, uniforms, notFrameVars>>

\* simulation.setBlackHoleParams(mass, spin): params first, then the metric
SetBlackHoleParams(mass, spin) ==
    LET res == setParameters(km, mass, spin)
    IN  /\ params' = [params EXCEPT !.mass = mass, !.spin = spin]
        /\ km' = res.obj
        /\ lastCall' = [op |-> "set", mass |-> mass, spin |-> spin, threw |-> res.threw]
        /\ lastGood' = IF res.threw THEN lastGood ELSE [mass |-> mass, spin |-> spin]
        /\ UNCHANGED <<uniforms, gpu, notFrameKmVars>>

\* toggleDisk / toggleJets / togglePhotonRing / toggleErgosphere
Toggle(name) ==
    /\ params' = [params EXCEPT ![name] = ~@]
    /\ UNCHANGED <<uniforms, gpu, notFrameVars>>

\* simulation.setQuality(level) from the console or the keyboard: what it
\* does to params
SetQualityEvent(level) ==
    /\ level # params.currentLevel
    /\ params' = applyQualityPreset(params, level)
    /\ UNCHANGED <<uniforms, gpu, notFrameVars>>

(***************************************************************************)
(* QualityManager and PerformanceMonitor under the render loop             *)
(* (quality-manager.js, performance-monitor.js, main.js).  Times are in    *)
(* milliseconds and advance in steps of the FPS update interval.           *)
(***************************************************************************)
\* defaultParams.quality
targetFps == 60
minFps == 30
adaptiveCooldown == 2000
\* QualityManager constructor
lowFpsThreshold == 60
highFpsThreshold == 300
\* PerformanceMonitor constructor
fpsUpdateInterval == 500
minAcceptableFps == 30
criticalFps == 20

\* the methods class WebGLContext defines
WebGLContext == {"constructor", "_init", "_checkExtensions", "_setDefaultState",
                 "_setupResize", "_resize", "onResize", "getSize",
                 "getAspectRatio", "clear", "hasExtension", "getContext"}

\* calling a method an object does not have throws a TypeError
CallThrows(object, method) == method \notin object

\* levels.indexOf(level), counted from 1
IndexOf(level) ==
    CHOOSE n \in 1 .. Len(getQualityLevels) : getQualityLevels[n] = level

\* FPS values a measurement can give: critical, warning, between the
\* thresholds, at target
FpsVals == {10, 25, 40, 60}
\* levels a caller passes: above, at and below the default level, and a
\* string that is no level
LevelArgs == {"ultra", "high", "low", "extreme"}

\* The objects one operation works on, and how the operation went so far:
\* whether it threw, the onQualityChange calls made, the value returned.
World(q, m, p) ==
    [qm |-> q, pm |-> m, params |-> p,
     threw |-> FALSE, notified |-> <<>>, ret |-> "none"]

\* QualityManager.setQuality with _applyQualityPreset: the preset is
\* assigned to params, then webglContext.updateResolution is called, then
\* the change is announced
setQuality(w, level) ==
    IF level \notin QualityLevels THEN w
    ELSE IF level = w.qm.currentLevel THEN w
    ELSE LET old == w.qm.currentLevel
             w1  == [w EXCEPT !.qm.previousLevel = old,
                              !.qm.currentLevel = level,
                              !.qm.sinceAdjustment = 0,
                              !.params = applyQualityPreset(w.params, level),
                              !.pm.qualityLevel = level,
                              !.threw = CallThrows(WebGLContext, "updateResolution")]
         IN  IF w1.threw THEN w1
             ELSE [w1 EXCEPT !.notified = Append(@, <<level, w1.qm.previousLevel>>)]

\* QualityManager.downgrade
downgrade(w) ==
    LET currentIndex == IndexOf(w.qm.currentLevel)
    IN  IF currentIndex < Len(getQualityLevels)
        THEN LET w1 == setQuality(w, getQualityLevels[currentIndex + 1])
             IN  IF w1.threw THEN w1 ELSE [w1 EXCEPT !.ret = TRUE]
        ELSE [w EXCEPT !.ret = FALSE]

\* QualityManager.upgrade
upgrade(w) ==
    LET currentIndex == IndexOf(w.qm.currentLevel)
    IN  IF currentIndex > 1
        THEN LET w1 == setQuality(w, getQualityLevels[currentIndex - 1])
             IN  IF w1.threw THEN w1 ELSE [w1 EXCEPT !.ret = TRUE]
        ELSE [w EXCEPT !.ret = FALSE]

\* QualityManager.cycleQuality
cycleQuality(w, reverse) ==
    LET n == Len(getQualityLevels)
        currentIndex == IndexOf(w.qm.currentLevel) - 1
        newIndex == IF reverse THEN (currentIndex - 1 + n) % n
                    ELSE (currentIndex + 1) % n
    IN  setQuality(w, getQualityLevels[newIndex + 1])

\* QualityManager.setAdaptiveEnabled
setAdaptiveEnabled(w, enabled) ==
    [w EXCEPT !.qm.adaptiveEnabled = enabled,
              !.qm.lowFpsFrames = 0, !.qm.highFpsFrames = 0]

\* lowFpsFrames++; the counter is only ever compared with lowFpsThreshold
\* and reset, so it is kept no larger than the threshold
CountLowFrame(n) == IF n < lowFpsThreshold THEN n + 1 ELSE n

\* QualityManager._handlePerformanceWarning
handlePerformanceWarning(w) ==
    LET w1 == [w EXCEPT !.qm.lowFpsFrames = CountLowFrame(@)]
    IN  IF w1.qm.lowFpsFrames >= lowFpsThreshold
        THEN LET w2 == downgrade(w1)
             IN  IF w2.threw THEN w2 ELSE [w2 EXCEPT !.qm.lowFpsFrames = 0]
        ELSE w1

\* QualityManager._handlePerformanceCritical
handlePerformanceCritical(w) ==
    LET w1 == downgrade(w)
    IN  IF w1.threw THEN w1 ELSE [w1 EXCEPT !.qm.lowFpsFrames = 0]

\* the callbacks _setupPerformanceCallbacks installs on the monitor
onPerformanceWarning(w) ==
    IF w.qm.adaptiveEnabled THEN handlePerformanceWarning(w) ELSE w

\* slip: the critical callback without the adaptiveEnabled test
onPerformanceCritical_Always(w) ==
    handlePerformanceCritical(w)

onPerformanceCritical(w) ==
    IF w.qm.adaptiveEnabled THEN handlePerformanceCritical(w) ELSE w

\* PerformanceMonitor._updatePerformanceState
updatePerformanceState(w) ==
    LET fps == w.pm.fps
        newState == IF fps < criticalFps THEN "critical"
                    ELSE IF fps < minAcceptableFps THEN "warning"
                    ELSE "good"
    IN  IF newState # w.pm.performanceState
        THEN LET w1 == [w EXCEPT !.pm.performanceState = newState]
             IN  IF newState = "critical" THEN onPerformanceCritical(w1)
                 ELSE IF newState = "warning" THEN onPerformanceWarning(w1)
                 ELSE w1
        ELSE w

\* PerformanceMonitor.endFrame: once the update interval has passed, the
\* FPS is recomputed from the frames counted (here: measured) and the
\* performance state re-evaluated
endFrame(w, measured) ==
    IF w.pm.sinceFpsUpdate >= fpsUpdateInterval
    THEN updatePerformanceState([w EXCEPT !.pm.fps = measured,
                                          !.pm.sinceFpsUpdate = 0])
    ELSE w

\* QualityManager.update
update(w) ==
    IF ~w.qm.adaptiveEnabled THEN w
    ELSE IF w.qm.sinceAdjustment < adaptiveCooldown THEN w
    ELSE IF w.pm.fps >= targetFps - 5
    THEN LET w1 == [w EXCEPT !.qm.highFpsFrames = @ + 1, !.qm.lowFpsFrames = 0]
         IN  IF w1.qm.highFpsFrames >= highFpsThreshold
             THEN LET w2 == upgrade(w1)
                  IN  IF w2.threw THEN w2 ELSE [w2 EXCEPT !.qm.highFpsFrames = 0]
             ELSE w1
    ELSE IF w.pm.fps < minFps
    THEN [w EXCEPT !.qm.lowFpsFrames = CountLowFrame(@), !.qm.highFpsFrames = 0]
    ELSE w

\* The simulation after the constructors of _init: the quality manager at
\* the level of defaultParams, no frame measured, the clock at the time
\* origin (lastAdjustmentTime = lastFpsUpdate = 0).  sinceAdjustment is
\* performance.now() - lastAdjustmentTime, kept no larger than the
\* cooldown; sinceFpsUpdate likewise for lastFpsUpdate and the interval.
QualityInit ==
    /\ params = defaultParams
    /\ qm = [exists |-> TRUE,
             currentLevel |-> defaultParams.currentLevel,
             previousLevel |-> defaultParams.currentLevel,
             adaptiveEnabled |-> TRUE, sinceAdjustment |-> 0,
             lowFpsFrames |-> 0, highFpsFrames |-> 0]
    /\ pm = [exists |-> TRUE, fps |-> 0, performanceState |-> "good",
             qualityLevel |-> "high", sinceFpsUpdate |-> 0]
    /\ loop = [phase |-> "init", calls |-> 0, watching |-> FALSE, pure |-> TRUE]
    /\ tour = [exists |-> FALSE]
    /\ call = [op |-> "new", level |-> "none", from |-> "none", threw |-> FALSE,
               notified |-> <<>>, ret |-> "none"]
    /\ uniforms = [set |-> FALSE] /\ gpu = [active |-> FALSE]
    /\ km = KerrFields(defaultParams.mass, defaultParams.spin)
    /\ lastCall = [op |-> "new", mass |-> defaultParams.mass,
                   spin |-> defaultParams.spin, threw |-> FALSE]
    /\ lastGood = [mass |-> defaultParams.mass, spin |-> defaultParams.spin]
    /\ cfg = [maxSteps |-> 0, M |-> One, a |-> 0, escapeRadius |-> DefaultEscapeRadius,
              showDisk |-> FALSE, showJets |-> FALSE,
              showErgosphere |-> FALSE, showPhotonRing |-> FALSE]
    /\ pc = "idle" /\ i = 0 /\ steps = 0 /\ r = 0 /\ minRadius = 0
    /\ result = RAY_ACTIVE /\ finalDir = "rayDir"
    /\ jetColor = Black /\ ergoColor = Black /\ diskColor = Black /\ diskAlpha = 0
    /\ skyLookup = "none" /\ finalColor = Black
    /\ disk = [exists |-> FALSE] /\ temp = [by |-> "none"]

\* the same start, with the observer of the high-FPS counter switched on
WatchedInit ==
    /\ params = defaultParams
    /\ qm = [exists |-> TRUE,
             currentLevel |-> defaultParams.currentLevel,
             previousLevel |-> defaultParams.currentLevel,
             adaptiveEnabled |-> TRUE, sinceAdjustment |-> 0,
             lowFpsFrames |-> 0, highFpsFrames |-> 0]
    /\ pm = [exists |-> TRUE, fps |-> 0, performanceState |-> "good",
             qualityLevel |-> "high", sinceFpsUpdate |-> 0]
    /\ loop = [phase |-> "init", calls |-> 0, watching |-> TRUE, pure |-> TRUE]
    /\ tour = [exists |-> FALSE]
    /\ call = [op |-> "new", level |-> "none", from |-> "none", threw |-> FALSE,
               notified |-> <<>>, ret |-> "none"]
    /\ uniforms = [set |-> FALSE] /\ gpu = [active |-> FALSE]
    /\ km = KerrFields(defaultParams.mass, defaultParams.spin)
    /\ lastCall = [op |-> "new", mass |-> defaultParams.mass,
                   spin |-> defaultParams.spin, threw |-> FALSE]
    /\ lastGood = [mass |-> defaultParams.mass, spin |-> defaultParams.spin]
    /\ cfg = [maxSteps |-> 0, M |-> One, a |-> 0, escapeRadius |-> DefaultEscapeRadius,
              showDisk |-> FALSE, showJets |-> FALSE,
              showErgosphere |-> FALSE, showPhotonRing |-> FALSE]
    /\ pc = "idle" /\ i = 0 /\ steps = 0 /\ r = 0 /\ minRadius = 0
    /\ result = RAY_ACTIVE /\ finalDir = "rayDir"
    /\ jetColor = Black /\ ergoColor = Black /\ diskColor = Black /\ diskAlpha = 0
    /\ skyLookup = "none" /\ finalColor = Black
    /\ disk = [exists |-> FALSE] /\ temp = [by |-> "none"]

\* an operation has run: the objects as it left them, and the record of it
Ran(w, op, level) ==
    /\ qm' = w.qm
    /\ pm' = w.pm
    /\ params' = w.params
    /\ call' = [op |-> op, level |-> level, from |-> qm.currentLevel,
                threw |-> w.threw, notified |-> w.notified, ret |-> w.ret]
    /\ UNCHANGED notQualityVars

\* model bound: calls from the keyboard or the console in one run
MaxCalls == 1

\* Observer of the high-FPS counter, kept only in runs that start with
\* loop.watching: pure says that the frames highFpsFrames has counted are
\* consecutive high-FPS frames since the last quality change.  It ends
\* when the level changes, or a frame below targetFps - 5 passes, while
\* the counter keeps its count.
PureAfter(w, isFrame) ==
    IF ~loop.watching THEN TRUE
    ELSE IF w.qm.highFpsFrames = 0 THEN TRUE
    ELSE IF w.qm.currentLevel # qm.currentLevel THEN FALSE
    ELSE IF isFrame /\ w.pm.fps < targetFps - 5 THEN FALSE
    ELSE loop.pure

\* the loop's record after an operation: its phase, the manual calls so far
LoopAfter(w, phase, manual) ==
    [phase |-> phase,
     calls |-> IF manual THEN loop.calls + 1 ELSE loop.calls,
     watching |-> loop.watching,
     pure |-> PureAfter(w, ~manual /\ loop.phase = "running")]

\* time passes
Tick ==
    /\ loop.phase \in {"init", "running", "stopped"}
    /\ qm' = [qm EXCEPT !.sinceAdjustment =
                 IF @ < adaptiveCooldown THEN @ + fpsUpdateInterval ELSE @]
    /\ pm' = [pm EXCEPT !.sinceFpsUpdate = fpsUpdateInterval]
    /\ UNCHANGED <<params, loop, call, notQualityVars>>

\* _init: setQuality(recommendedQuality) inside the try block, then _start;
\* an exception ends the initialization with the error screen
InitSetQuality(recommendedQuality) ==
    LET w == setQuality(World(qm, pm, params), recommendedQuality)
    IN  /\ loop.phase = "init"
        /\ Ran(w, "init", recommendedQuality)
        /\ loop' = LoopAfter(w, IF w.threw THEN "failed" ELSE "running", FALSE)

\* _renderLoop: endFrame, qualityManager.update, requestAnimationFrame; an
\* exception leaves the callback before the next frame is requested
RenderFrame(measured) ==
    LET w1 == endFrame(World(qm, pm, params), measured)
        w2 == IF w1.threw THEN w1 ELSE update(w1)
    IN  /\ loop.phase = "running"
        /\ Ran(w2, "frame", "none")
        /\ loop' = LoopAfter(w2, IF w2.threw THEN "stopped" ELSE "running", FALSE)

\* calls from the keyboard or the console (simulation.setQuality,
\* window.quality) once the simulation has started
Started == loop.phase \in {"running", "stopped"} /\ loop.calls < MaxCalls

SetQuality(level) ==
    LET w == setQuality(World(qm, pm, params), level)
    IN  /\ Started
        /\ Ran(w, "setQuality", level)
        /\ loop' = LoopAfter(w, loop.phase, TRUE)

CycleQuality(reverse) ==
    LET w == cycleQuality(World(qm, pm, params), reverse)
    IN  /\ Started
        /\ Ran(w, "cycleQuality", "none")
        /\ loop' = LoopAfter(w, loop.phase, TRUE)

Downgrade ==
    LET w == downgrade(World(qm, pm, params))
    IN  /\ Started
        /\ Ran(w, "downgrade", "none")
        /\ loop' = LoopAfter(w, loop.phase, TRUE)

Upgrade ==
    LET w == upgrade(World(qm, pm, params))
    IN  /\ Started
        /\ Ran(w, "upgrade", "none")
        /\ loop' = LoopAfter(w, loop.phase, TRUE)

SetAdaptiveEnabled(enabled) ==
    LET w == setAdaptiveEnabled(World(qm, pm, params), enabled)
    IN  /\ Started
        /\ Ran(w, "setAdaptiveEnabled", "none")
        /\ loop' = LoopAfter(w, loop.phase, TRUE)

(***************************************************************************)
(* The guided tour: TimeController and KeyframeManager                     *)
(* (animation/time-controller.js, animation/keyframe-manager.js)           *)
(***************************************************************************)
\* AnimationState
IDLE == "idle"
PLAYING == "playing"
PAUSED == "paused"

\* tour-sequences.js: the sequences followed here, the time of their last
\* keyframe (KeyframeManager.duration after addKeyframes) and the property
\* paths they have a track for
sequenceDuration == [educationalTour |-> 60 * One, diskTemperature |-> 10 * One]
sequenceTracks ==
    [educationalTour |->
        {"camera.distance", "camera.theta", "camera.phi",
         "accretionDisk.enabled", "advancedFeatures.showJets",
         "advancedFeatures.showPhotonRing", "debug.showErgosphere",
         "debug.showPhotonSphere", "debug.showHorizon", "blackHole.spin"},
     diskTemperature |->
        {"camera.distance", "camera.theta", "camera.phi",
         "accretionDisk.enabled", "advancedFeatures.showJets"}]
\* educationalTour.scenes[k].startTime; the quick demos have no scenes
sceneStartTime == <<0, 10 * One, 20 * One, 30 * One, 38 * One, 46 * One, 52 * One>>

\* values the callers pass
DemoNames == {"diskTemperature", "warpDrive"}
\* setSpeed: the options of the speed selector among them, zero, and a
\* reversed playback
SpeedVals == {0 - One, 0, One \div 2, One, 2 * One}
SeekVals == {0 - (5 * One), 7 * One, 100 * One}
SceneIndexVals == {2, 5, 9}
\* time between two frames, or between an event and the next frame (ms)
FrameDeltas == {One, 4 * One}

\* model bounds: seconds of stale _lastUpdateTime told apart (longer ones
\* count as this), and seconds below zero down to which a clock is followed
MaxStale == 4
MaxRewind == 2
\* model bound: radians up to which an auto-rotating camera is followed
MaxTurn == 1

\* new TimeController(simulation) with its new KeyframeManager(); the
\* fields op, dt, completed and wrote describe the last operation: its
\* name, the frame's time step, the number of onTourComplete calls it made
\* and the property paths it wrote into simulation.params
NewTour ==
    [exists |-> TRUE, state |-> IDLE, currentTour |-> "none",
     tracks |-> {}, duration |-> 0, currentTime |-> 0,
     isPlaying |-> FALSE, isLooping |-> FALSE, playbackSpeed |-> One,
     sinceUpdate |-> 0,
     op |-> "new", dt |-> 0, completed |-> 0, wrote |-> {}]

\* the observations of an operation start empty
Fresh(t) == [t EXCEPT !.dt = 0, !.completed = 0, !.wrote = {}]

\* KeyframeManager.clear
KeyframeManager_clear(t) ==
    [t EXCEPT !.tracks = {}, !.duration = 0, !.currentTime = 0]

\* KeyframeManager.addKeyframes(sequence keyframes): the tracks, and
\* duration = max(duration, time) over the keyframes
KeyframeManager_addKeyframes(t, name) ==
    [t EXCEPT !.tracks = @ \cup sequenceTracks[name],
              !.duration = IF sequenceDuration[name] > @
                           THEN sequenceDuration[name] ELSE @]

\* slip: play() does not take a new _lastUpdateTime
KeyframeManager_play_KeepsLastUpdate(t) ==
    [t EXCEPT !.isPlaying = TRUE]

\* KeyframeManager.play: _lastUpdateTime = performance.now()
KeyframeManager_play(t) ==
    [t EXCEPT !.isPlaying = TRUE, !.sinceUpdate = 0]

\* KeyframeManager.pause
KeyframeManager_pause(t) == [t EXCEPT !.isPlaying = FALSE]

\* KeyframeManager.stop
KeyframeManager_stop(t) == [t EXCEPT !.isPlaying = FALSE, !.currentTime = 0]

\* KeyframeManager.seek: Math.max(0, Math.min(time, duration))
KeyframeManager_seek(t, time) ==
    LET lower == IF time < t.duration THEN time ELSE t.duration
    IN  [t EXCEPT !.currentTime = IF lower > 0 THEN lower ELSE 0]

\* KeyframeManager.getProgress
KeyframeManager_getProgress(t) ==
    IF t.duration > 0
    THEN IF t.currentTime = NaN THEN NaN ELSE (t.currentTime * One) \div t.duration
    ELSE 0

\* slip: completion stops the keyframe manager only
handleComplete_KeepsState(t) ==
    [t EXCEPT !.completed = @ + 1]

\* TimeController._handleComplete (keyframeManager.onComplete): back to
\* IDLE, then onTourComplete()
handleComplete(t) ==
    [t EXCEPT !.state = IDLE, !.completed = @ + 1]

\* JavaScript x % y for x >= y >= 0
JsRemainder(x, y) == IF y = 0 THEN NaN ELSE x % y

\* KeyframeManager.update(timestamp), t.sinceUpdate being timestamp -
\* _lastUpdateTime: the clock advances by deltaTime * playbackSpeed and
\* wraps or completes at the duration
KeyframeManager_update(t) ==
    IF ~t.isPlaying THEN t
    ELSE LET advanced == FAdd(t.currentTime, FMul(t.sinceUpdate, t.playbackSpeed))
             t1 == [t EXCEPT !.sinceUpdate = 0, !.currentTime = advanced]
         IN  IF FGe(advanced, t.duration)
             THEN IF t.isLooping
                  THEN [t1 EXCEPT !.currentTime = JsRemainder(advanced, t.duration)]
                  ELSE handleComplete([t1 EXCEPT !.currentTime = t.duration,
                                                 !.isPlaying = FALSE])
             ELSE t1

\* TimeController._applyAnimationValues(values): every track of the
\* keyframe manager has a value, each is written to its path
applyAnimationValues(t) == [t EXCEPT !.wrote = @ \cup t.tracks]

\* the values of the tracks that are constant in time (a single keyframe,
\* or the same value in every keyframe), as they arrive in params; the
\* other tracks are followed by their path only
AnimatedParams(p, t) ==
    IF t.wrote = {} THEN p
    ELSE IF t.tracks = sequenceTracks["diskTemperature"]
         THEN [p EXCEPT !.diskEnabled = TRUE, !.showJets = FALSE]
         ELSE [p EXCEPT !.spin = 900, !.showPhotonRing = TRUE]

\* TimeController.update(timestamp)
TimeController_update(t) ==
    IF t.state # PLAYING THEN t
    ELSE applyAnimationValues(KeyframeManager_update(t))

\* TimeController.play / pause / togglePlayPause / stop
TimeController_play(t) == KeyframeManager_play([t EXCEPT !.state = PLAYING])
TimeController_pause(t) == KeyframeManager_pause([t EXCEPT !.state = PAUSED])
togglePlayPause(t) ==
    IF t.state = PLAYING THEN TimeController_pause(t) ELSE TimeController_play(t)
TimeController_stop(t) == KeyframeManager_stop([t EXCEPT !.state = IDLE])

\* TimeController.loadTour(educationalTour)
loadTour(t) ==
    [KeyframeManager_addKeyframes(KeyframeManager_clear(t), "educationalTour")
        EXCEPT !.currentTour = "educationalTour"]

\* TimeController.startEducationalTour
startEducationalTour(t) == TimeController_play(loadTour(t))

\* TimeController.startQuickDemo(demoName): an unknown name is reported
\* and nothing else happens
startQuickDemo(t, demoName) ==
    IF demoName \notin DOMAIN sequenceDuration \/ demoName = "educationalTour"
    THEN t
    ELSE TimeController_play(
            [KeyframeManager_addKeyframes(KeyframeManager_clear(t), demoName)
                EXCEPT !.currentTour = demoName])

\* TimeController.seek(time): the clock, then the values at that time are
\* written to params
TimeController_seek(t, time) ==
    applyAnimationValues(KeyframeManager_seek(t, time))

\* TimeController.jumpToSceneIndex(index), 1-based: only a tour with
\* scenes, only an index that names a scene
jumpToSceneIndex(t, index) ==
    IF t.currentTour # "educationalTour" THEN t
    ELSE IF index \notin DOMAIN sceneStartTime THEN t
    ELSE TimeController_seek(t, sceneStartTime[index])

\* TimeController.setSpeed / setLooping
setSpeed(t, speed) == [t EXCEPT !.playbackSpeed = speed]
setLooping(t, looping) == [t EXCEPT !.isLooping = looping]

\* a simulation after _initAnimationSystem: the controller is IDLE, no
\* sequence is loaded; no ray, metric call, draw or quality call is followed
TourInit ==
    /\ tour = NewTour
    /\ params = defaultParams
    /\ uniforms = NoUniforms
    /\ gpu = NoDraw
    /\ qm = [exists |-> FALSE] /\ pm = [exists |-> FALSE]
    /\ loop = [phase |-> "none"] /\ call = [op |-> "none"]
    /\ km = KerrFields(defaultParams.mass, defaultParams.spin)
    /\ lastCall = [op |-> "new", mass |-> defaultParams.mass,
                   spin |-> defaultParams.spin, threw |-> FALSE]
    /\ lastGood = [mass |-> defaultParams.mass, spin |-> defaultParams.spin]
    /\ cfg = [maxSteps |-> 0, M |-> One, a |-> 0, escapeRadius |-> DefaultEscapeRadius,
              showDisk |-> FALSE, showJets |-> FALSE,
              showErgosphere |-> FALSE, showPhotonRing |-> FALSE]
    /\ pc = "idle" /\ i = 0 /\ steps = 0 /\ r = 0 /\ minRadius = 0
    /\ result = RAY_ACTIVE /\ finalDir = "rayDir"
    /\ jetColor = Black /\ ergoColor = Black /\ diskColor = Black /\ diskAlpha = 0
    /\ skyLookup = "none" /\ finalColor = Black
    /\ disk = [exists |-> FALSE] /\ temp = [by |-> "none"]

\* an operation on the controller has run: its result, and its writes
\* into simulation.params
TourRan(t, op) ==
    /\ tour' = [t EXCEPT !.op = op]
    /\ params' = AnimatedParams(params, t)
    /\ UNCHANGED notTourVars

\* performance.now() has moved on by dt since the frame before; a control
\* is handled right after a frame
Elapse(t, dt) ==
    [t EXCEPT !.dt = dt,
              !.sinceUpdate = IF @ + dt > MaxStale * One THEN MaxStale * One ELSE @ + dt]

\* Math.PI * 2
TwoPi == 6283

\* _update, second half: the camera turns by rotationSpeed * deltaTime
\* when auto-rotation is on and no tour is playing
autoRotateCamera(p, state, deltaTime) ==
    IF p.autoRotate /\ state # PLAYING
    THEN [p EXCEPT !.cameraPhi = (@ + FMul(p.rotationSpeed, deltaTime)) % TwoPi]
    ELSE p

\* _renderLoop -> _update(time, deltaTime), dt after the frame before:
\* timeController.update(performance.now()), then the auto-rotation
TourFrame(dt) ==
    LET t == TimeController_update(Elapse(Fresh(tour), dt))
    IN  /\ tour.currentTime = NaN \/ tour.currentTime > 0 - (MaxRewind * One)
        /\ (params.autoRotate /\ t.state # PLAYING) => params.cameraPhi < MaxTurn * One
        /\ tour' = [t EXCEPT !.op = "frame"]
        /\ params' = autoRotateCamera(AnimatedParams(params, t), t.state, dt)
        /\ UNCHANGED notTourVars

\* simulation.toggleAutoRotate
ToggleAutoRotate ==
    /\ params' = [params EXCEPT !.autoRotate = ~@]
    /\ tour' = [Fresh(tour) EXCEPT !.op = "toggleAutoRotate"]
    /\ UNCHANGED notTourVars

StartEducationalTour == TourRan(startEducationalTour(Fresh(tour)), "startEducationalTour")
StartQuickDemo(demoName) == TourRan(startQuickDemo(Fresh(tour), demoName), "startQuickDemo")
LoadTour == TourRan(loadTour(Fresh(tour)), "loadTour")
Play == TourRan(TimeController_play(Fresh(tour)), "play")
Pause == TourRan(TimeController_pause(Fresh(tour)), "pause")
TogglePlayPause == TourRan(togglePlayPause(Fresh(tour)), "togglePlayPause")
Stop == TourRan(TimeController_stop(Fresh(tour)), "stop")
Seek(time) == TourRan(TimeController_seek(Fresh(tour), time), "seek")
JumpToSceneIndex(index) == TourRan(jumpToSceneIndex(Fresh(tour), index), "jumpToSceneIndex")
SetSpeed(speed) == TourRan(setSpeed(Fresh(tour), speed), "setSpeed")
SetLooping(looping) == TourRan(setLooping(Fresh(tour), looping), "setLooping")

(***************************************************************************)
(* Specifications                                                          *)
(***************************************************************************)
RayNext ==
    \/ CheckMaxSteps
    \/ CheckCaptured
    \/ CheckEscaped
    \/ StepContinue
    \/ StepInvalid
    \/ LoopExhausted
    \/ RayMarchComposite

\* one ray of one frame, from initializeGeodesic to the pixel colour
RaySpec == RayInit /\ [][RayNext]_vars

KmNext ==
    \/ \E mass \in MassVals, spin \in KmSpinVals : Construct(mass, spin)
    \/ \E mass \in MassVals, spin \in KmSpinVals : SetParameters(mass, spin)

\* the metric object under arbitrary constructor / setParameters calls
MetricSpec == KmInit /\ [][KmNext]_vars

DiskNext ==
    \/ DiskCrossing
    \/ DiskCrossing2

\* the disk accumulators of one ray over successive loop iterations
DiskSpec == DiskInit /\ [][DiskNext]_vars

TempNext ==
    \/ \E spin \in SpinVals, innerRadius \in DiskInnerRadii, T0 \in PeakTemperatures :
          NewAccretionDisk(One, spin, innerRadius, T0)
    \/ \E rad \in TempRadii : Temperature(rad)
    \/ \E rad \in TempRadii : ShaderTemperature(rad)

\* temperature queries on accretion disks of any configuration
TempSpec == TempInit /\ [][TempNext]_vars

FrameNext ==
    \/ \E animSpin \in FrameSpinVals \cup {NotPlaying}, level \in FrameLevels \cup {"none"} :
          RenderLoop(animSpin, level)
    \/ EvaluateRay
    \/ FrameDone
    \/ \E spin \in CallSpinVals : SetBlackHoleParams(One, spin)
    \/ \E name \in ToggleNames : Toggle(name)
    \/ \E level \in FrameLevels : SetQualityEvent(level)

\* frames of the render loop, with user, animation and quality events
\* arriving between the tasks of the main thread while the GPU shades
FrameSpec == FrameInit /\ [][FrameNext]_vars

QualityNext ==
    \/ Tick
    \/ \E level \in QualityLevels : InitSetQuality(level)
    \/ \E measured \in FpsVals : RenderFrame(measured)
    \/ \E level \in LevelArgs : SetQuality(level)
    \/ \E reverse \in BOOLEAN : CycleQuality(reverse)
    \/ Downgrade
    \/ Upgrade
    \/ \E enabled \in BOOLEAN : SetAdaptiveEnabled(enabled)

\* the quality manager under the render loop, the clock and manual calls
QualitySpec == QualityInit /\ [][QualityNext]_vars

\* the same program with the high-FPS counter observed
WatchedQualitySpec == WatchedInit /\ [][QualityNext]_vars

LoopNext ==
    \/ Tick
    \/ \E level \in QualityLevels : InitSetQuality(level)
    \/ \E measured \in FpsVals : RenderFrame(measured)

\* the render loop left to itself: time passes, and while the loop runs
\* requestAnimationFrame brings the next frame
FairLoopSpec ==
    /\ QualityInit
    /\ [][LoopNext]_vars
    /\ WF_vars(Tick)
    /\ WF_vars(\E measured \in FpsVals : RenderFrame(measured))

TourNext ==
    \/ StartEducationalTour
    \/ \E demoName \in DemoNames : StartQuickDemo(demoName)
    \/ LoadTour
    \/ Play
    \/ Pause
    \/ TogglePlayPause
    \/ Stop
    \/ \E time \in SeekVals : Seek(time)
    \/ \E index \in SceneIndexVals : JumpToSceneIndex(index)
    \/ \E speed \in SpeedVals : SetSpeed(speed)
    \/ \E looping \in BOOLEAN : SetLooping(looping)
    \/ \E dt \in FrameDeltas : TourFrame(dt)

\* the tour with its controls and the frames of the render loop
TourSpec == TourInit /\ [][TourNext]_vars

\* a demo started, paused and resumed, its speed and looping changed
DemoNext ==
    \/ \E demoName \in DemoNames : StartQuickDemo(demoName)
    \/ TogglePlayPause
    \/ \E speed \in SpeedVals : SetSpeed(speed)
    \/ \E looping \in BOOLEAN : SetLooping(looping)
    \/ \E dt \in FrameDeltas : TourFrame(dt)

\* the keys of a tour (Space, Escape), a demo started, auto-rotation
\* switched, and the frames
KeysNext ==
    \/ \E demoName \in DemoNames : StartQuickDemo(demoName)
    \/ TogglePlayPause
    \/ Stop
    \/ ToggleAutoRotate
    \/ \E dt \in FrameDeltas : TourFrame(dt)

KeysSpec == TourInit /\ [][KeysNext]_vars

\* the render loop never ceases to request frames
FairTourSpec ==
    /\ TourInit
    /\ [][DemoNext]_vars
    /\ WF_vars(\E dt \in FrameDeltas : TourFrame(dt))

(***************************************************************************)
(* Properties of the integration loop (RaySpec / FairRaySpec)              *)
(***************************************************************************)

\* C1: for every ray and every configured maxSteps (above the cap, zero or
\* negative included) the loop performs at most 1000 iterations and then
\* returns a terminal outcome; it never runs forever.  Stated without
\* fairness: the work left (iterations up to the cap, then the return and
\* the composite) strictly decreases with every move of the ray, so no ray
\* makes more than 1002 moves, and a ray that left the loop has an outcome.
C1_BoundedLoopTerminates ==
    /\ [](i <= HardCap /\ steps <= HardCap)
    /\ [](pc # "loop" => result # RAY_ACTIVE)
    /\ [][ (IF pc' = "loop" THEN (HardCap - i') + 2
            ELSE IF pc' = "returned" THEN 1 ELSE 0)
          < (IF pc = "loop" THEN (HardCap - i) + 2
             ELSE IF pc = "returned" THEN 1 ELSE 0) ]_vars

C1_Witness ==
    cfg.maxSteps > HardCap /\ steps = HardCap /\ result = RAY_MAX_STEPS

\* C2: Active is the only non-terminal outcome; once the outcome is Captured,
\* Escaped or MaxStepsReached no further step is taken and the outcome never
\* changes.
C2_TerminalIsFinal ==
    [][ /\ (pc' = "loop") <=> (result' = RAY_ACTIVE)
        /\ result # RAY_ACTIVE =>
              (result' = result /\ steps' = steps /\ i' = i /\ r' = r) ]_vars

C2_Witness ==
    pc = "done" /\ result \in {RAY_CAPTURED, RAY_ESCAPED, RAY_MAX_STEPS} /\ steps > 0

\* C3 as stated: a ray ends MaxStepsReached exactly when its step count
\* reaches the configured maxSteps, and never takes more than maxSteps steps.
C3_AsStated ==
    pc # "loop" =>
        /\ (result = RAY_MAX_STEPS) <=> (steps = cfg.maxSteps)
        /\ steps <= cfg.maxSteps

\* C3 amended: a ray ends MaxStepsReached exactly when the number of completed
\* loop iterations reaches the configured maxSteps limited to the range
\* 0..1000 the hard-capped loop can count, and never takes more steps than
\* that.
C3_BudgetWithinHardCap ==
    LET budget == IF cfg.maxSteps < 0 THEN 0
                  ELSE IF cfg.maxSteps > HardCap THEN HardCap ELSE cfg.maxSteps
    IN  /\ steps <= budget
        /\ pc # "loop" => ((result = RAY_MAX_STEPS) <=> (i = budget))

C3_Witness ==
    pc = "done" /\ result = RAY_MAX_STEPS /\ cfg.maxSteps > HardCap /\ i = HardCap

\* C4 as stated: whenever the checks at the start of a step find
\* r < r_horizon * 1.001 the ray terminates Captured.
C4_AsStated ==
    [][ (pc = "loop" /\ r # NaN /\ r * 1000 < rH * 1001)
            => result' = RAY_CAPTURED ]_vars

\* C4 amended: whenever the checks at the start of a step find
\* r < r_horizon * 1.001 while the step budget is not used up (the loop
\* counter is below maxSteps and below 1000), the ray terminates Captured.
C4_CapturedWithinBudget ==
    [][ (pc = "loop" /\ i < cfg.maxSteps /\ i < HardCap
            /\ r # NaN /\ r * 1000 < rH * 1001)
            => (result' = RAY_CAPTURED /\ steps' = steps) ]_vars

C4_Witness ==
    result = RAY_CAPTURED /\ steps > 0 /\ r > rH /\ r * 1000 < rH * 1001

\* C5 as stated: whenever the checks find r > escapeRadius the ray terminates
\* Escaped; every Escaped ray carries a recomputed finalDirection; only
\* Escaped rays are looked up in the sky with a recomputed direction.
C5_AsStated ==
    [][ /\ (pc = "loop" /\ r # NaN /\ r > cfg.escapeRadius)
              => result' = RAY_ESCAPED
        /\ result' = RAY_ESCAPED => finalDir' = "recomputed"
        /\ skyLookup' = "recomputed" => result' = RAY_ESCAPED ]_vars

\* C5 amended: whenever the checks find r > escapeRadius while the step
\* budget is not used up and r is not below the capture radius, the ray
\* terminates Escaped; every Escaped ray carries a recomputed finalDirection;
\* only Escaped rays are looked up in the sky with a recomputed direction.
C5_EscapedAfterEarlierChecks ==
    [][ /\ (pc = "loop" /\ i < cfg.maxSteps /\ i < HardCap
              /\ r # NaN /\ ~(r * 1000 < rH * 1001) /\ r > cfg.escapeRadius)
              => (result' = RAY_ESCAPED /\ steps' = steps)
        /\ result' = RAY_ESCAPED => finalDir' = "recomputed"
        /\ skyLookup' = "recomputed" => result' = RAY_ESCAPED ]_vars

C5_Witness ==
    pc = "done" /\ result = RAY_ESCAPED /\ steps > 0 /\ skyLookup = "recomputed"

\* C6 as stated: if r is negative or NaN at any point, the initial state
\* included, the ray terminates Captured and no step is taken from such r.
C6_AsStated ==
    [][ /\ (r' = NaN \/ r' < 0) => result' \in {RAY_ACTIVE, RAY_CAPTURED}
        /\ steps' # steps => ~(r = NaN \/ r < 0) ]_vars

\* C6 amended: if an RK4 step leaves r negative or NaN, the ray terminates
\* Captured in that same iteration and no step is ever taken from it; a NaN
\* in the initial r is tested only after the first step.
C6_InvalidAfterStepIsCaptured ==
    [][ /\ (steps' = steps + 1 /\ (r' = NaN \/ r' < 0)) => result' = RAY_CAPTURED
        /\ (steps' # steps /\ (r = NaN \/ r < 0)) => (steps = 0 /\ r = NaN) ]_vars

C6_Witness ==
    pc = "done" /\ result = RAY_CAPTURED /\ steps > 1 /\ r < 0 /\ r # NaN

\* C7 as stated: no RK4 step is executed from a state that satisfies a
\* termination rule (capture radius, escape radius, budget used up, r
\* negative or NaN).
C7_AsStated ==
    [][ steps' = steps + 1 =>
          ~ \/ (r # NaN /\ r * 1000 < rH * 1001)
            \/ (r # NaN /\ r > cfg.escapeRadius)
            \/ i >= cfg.maxSteps
            \/ r = NaN \/ r < 0 ]_vars

\* C7 amended: no RK4 step is executed from a state with r below the capture
\* radius, r beyond the escape radius, the budget used up or r negative; NaN
\* is tested after the step, so only the first step of a ray can start from
\* a NaN r.
C7_ChecksPrecedeStep ==
    [][ steps' = steps + 1 =>
          /\ ~ \/ (r # NaN /\ r * 1000 < rH * 1001)
               \/ (r # NaN /\ r > cfg.escapeRadius)
               \/ i >= cfg.maxSteps \/ i >= HardCap
               \/ (r # NaN /\ r < 0)
          /\ r = NaN => steps = 0 ]_vars

C7_Witness ==
    pc = "loop" /\ steps > 1 /\ r = 60 * One

(***************************************************************************)
(* Properties of the composite (RaySpec)                                   *)
(***************************************************************************)

\* C8 as stated: a Captured ray to which the disk, the jets, the ergosphere
\* glow and the photon ring contribute nothing renders exactly black.
C8_AsStated ==
    (/\ pc = "done" /\ result = RAY_CAPTURED
     /\ diskColor = Black /\ jetColor = Black /\ ergoColor = Black
     /\ (cfg.showPhotonRing => calculatePhotonRing(minRadius, cfg.M, cfg.a) = Black))
    => finalColor = Black

\* C8 amended: a Captured ray to which the disk, the jets, the ergosphere
\* glow and the photon ring contribute nothing renders exactly black unless
\* its minimum radius lies strictly between r_H and 1.5 r_H, where the
\* shadow-edge glow is added.
C8_CapturedBlackOutsideGlowBand ==
    (/\ pc = "done" /\ result = RAY_CAPTURED
     /\ diskColor = Black /\ jetColor = Black /\ ergoColor = Black
     /\ (cfg.showPhotonRing => calculatePhotonRing(minRadius, cfg.M, cfg.a) = Black)
     /\ ~(minRadius # NaN /\ minRadius > rH /\ 2 * minRadius < 3 * rH))
    => finalColor = Black

C8_Witness ==
    /\ pc = "done" /\ result = RAY_CAPTURED /\ steps > 0 /\ finalColor = Black
    /\ r = NaN /\ minRadius = 10 * One /\ cfg.showPhotonRing

\* C15 as stated: the pixel is the sum of background (black if Captured),
\* ergosphere glow, jets and photon ring, with the disk blended over that
\* sum by its accumulated opacity, and with zero disk opacity it is that sum.
C15_AsStated ==
    pc = "done" =>
        LET background == IF result = RAY_CAPTURED THEN Black ELSE starfield(finalDir)
            ring == IF cfg.showPhotonRing
                    THEN calculatePhotonRing(minRadius, cfg.M, cfg.a) ELSE Black
            under == VAdd(VAdd(VAdd(background, ergoColor), jetColor), ring)
        IN  /\ finalColor = Mix(under, diskColor, diskAlpha)
            /\ diskAlpha = 0 => finalColor = under

\* C15 (amended): the pixel is composed in the fixed order background
\* (black if Captured), shadow-edge glow, ergosphere glow, jets, photon
\* ring, and finally the disk blended over everything by its accumulated
\* opacity; with zero accumulated disk opacity the disk layer changes nothing.
C15_DiskOverAllLayers ==
    pc = "done" =>
        LET background == IF result = RAY_CAPTURED THEN Black ELSE starfield(finalDir)
            ring == IF cfg.showPhotonRing
                    THEN calculatePhotonRing(minRadius, cfg.M, cfg.a) ELSE Black
            glow == shadowEdgeGlow(result, minRadius, eventHorizonRadius(cfg.M, cfg.a))
            under == VAdd(VAdd(VAdd(VAdd(background, glow), ergoColor), jetColor), ring)
        IN  /\ finalColor = VAdd(VScale(under, One - diskAlpha),
                                 VScale(diskColor, diskAlpha))
            /\ diskAlpha = 0 => finalColor = under

\* a pixel where the disk, partly opaque, lies over a jet contribution
C15_Witness ==
    /\ pc = "done" /\ diskAlpha > 0 /\ diskColor # Black
    /\ jetColor # Black /\ finalColor # Black

(***************************************************************************)
(* Properties of the disk accumulators (DiskSpec)                          *)
(***************************************************************************)
\* C12: along a ray the accumulated disk opacity starts at 0, never
\* decreases, stays strictly below 1 after any number of contributions, and
\* a contribution adds no more than the remaining transparency
\* (1 - accumulated opacity), nothing once none remains.
C12_DiskOpacityBelowOne ==
    /\ [](steps = 0 => diskAlpha = 0)
    /\ [](0 <= diskAlpha /\ diskAlpha < One)
    /\ [][/\ diskAlpha' >= diskAlpha
          /\ diskAlpha' - diskAlpha <= One - diskAlpha
          /\ (diskAlpha' > diskAlpha => diskAlpha < One)]_vars

\* several contributions have brought the opacity past the 0.995 cut-off
C12_Witness ==
    /\ pc = "disk" /\ steps >= 3 /\ diskAlpha >= 995

(***************************************************************************)
(* Properties of the disk temperature (TempSpec)                           *)
(***************************************************************************)
\* C14: the disk temperature is 0 for every radius r <= r_ISCO, whatever
\* inner radius the disk was configured with, and for every radius it is
\* non-negative and at most the stability ceiling (the configured peak in
\* the host code, 50,000 K in the shader).
C14_ZeroInsideIsco ==
    temp.by # "none" =>
        /\ temp.r <= calculateISCO(disk.M, disk.a) => temp.T = 0
        /\ 0 <= temp.T
        /\ temp.T <= (IF temp.by = "js" THEN disk.T0 ELSE ShaderTemperatureCap)

(***************************************************************************)
(* Properties of the render loop (FrameSpec)                               *)
(***************************************************************************)
\* C11: every ray of one frame is evaluated with the same parameter and
\* toggle values, those the frame's draw was issued with, and these values
\* do not change while the frame is in flight, whatever events occur.
C11_FrameParametersFixed ==
    /\ [](gpu.active => gpu.used \subseteq {gpu.u})
    /\ [][gpu.active /\ gpu'.active => gpu'.u = gpu.u]_vars

\* a frame fully shaded with one set of values although the host's
\* parameters changed while it was in flight
C11_Witness ==
    /\ gpu.active /\ gpu.raysLeft = 0
    /\ gpu.used = {gpu.u}
    /\ RenderUniforms(params) # gpu.u

\* C25: after any setBlackHoleParams call, accepted or rejected for M <= 0
\* or |a| > M, the mass and spin stored in the simulation parameters (the
\* ones the next frame sends to the shader) equal the mass and spin held
\* by the KerrMetric.
C25_ParamsMatchMetric ==
    [][ lastCall' # lastCall =>
          /\ params'.mass = km'.M /\ params'.spin = km'.a
          /\ RenderUniforms(params').u_mass = km'.M
          /\ RenderUniforms(params').u_spin = km'.a ]_vars

\* C26: in every rendered frame, with no disk inner radius configured, the
\* disk inner radius sent to the shader is the ISCO radius of the spin
\* sent to the shader in that same frame, also while a tour or demo is
\* animating the spin.
C26_InnerRadiusIsIscoOfSentSpin ==
    (gpu.active /\ gpu.u.u_spin \in FrameSpinVals) =>
        gpu.u_diskInnerRadius = KerrMetric_iscoRadius(KerrFields(gpu.u.u_mass, gpu.u.u_spin))

(***************************************************************************)
(* Properties of the KerrMetric object (MetricSpec)                        *)
(***************************************************************************)
\* C13: for every valid (M, a), of either sign, the radii the metric object
\* reports satisfy innerHorizon <= eventHorizon <= photonSphere <=
\* isco (prograde) <= isco (retrograde).
C13_RadiiOrdered ==
    km.exists =>
        LET g == getKeyRadii(km)
        IN  /\ g.innerHorizon <= g.eventHorizon
            /\ g.eventHorizon <= g.photonSphere
            /\ g.photonSphere <= g.isco
            /\ g.isco <= g.iscoRetrograde


\* C9: constructing or setting parameters with M <= 0 or |a| > M always
\* fails with an error; the values are never accepted and never clamped.
C9_InvalidParametersRejected ==
    [][ (lastCall'.op # "none"
            /\ (lastCall'.mass <= 0 \/ lastCall'.spin > lastCall'.mass
                \/ 0 - lastCall'.spin > lastCall'.mass))
        => (lastCall'.threw /\ km' = km) ]_vars

C9_Witness ==
    /\ km.exists /\ lastCall.op = "set" /\ lastCall.threw
    /\ lastCall.mass > 0 /\ lastCall.spin > lastCall.mass

ReadmeRaySteps ==
    [level \in QualityLevels |->
        CASE level = "ultra" -> 2000
          [] level = "high" -> 1000
          [] level = "medium" -> 500
          [] level = "low" -> 250
          [] level = "potato" -> 100]

\* C17: at each quality level the step budget handed to the integrator
\* (u_maxSteps) is the one the README table lists - Ultra 2000, High 1000,
\* Medium 500, Low 250, Potato 100 - and a ray may take that many steps,
\* that is, the budget is within the integrator's hard cap.
C17_ReadmeStepBudget ==
    qm.exists =>
        /\ RenderUniforms(params).u_maxSteps = ReadmeRaySteps[qm.currentLevel]
        /\ RenderUniforms(params).u_maxSteps <= HardCap

\* C18: setQuality(level) with a valid level different from the current
\* one completes normally, and then currentLevel = level, previousLevel =
\* the old level, the integrator steps, step size, resolution and feature
\* flags equal the level's preset, and onQualityChange was invoked exactly
\* once with (level, old level).
C18_SetQualityCompletes ==
    (call.op = "setQuality" /\ call.level \in QualityLevels /\ call.level # call.from)
        => /\ ~call.threw
           /\ qm.currentLevel = call.level
           /\ qm.previousLevel = call.from
           /\ params = applyQualityPreset(params, call.level)
           /\ call.notified = << <<call.level, call.from>> >>

\* C19: with adaptive quality enabled and the level above 'potato', a
\* measured FPS that stays below the minimum acceptable FPS for 60
\* consecutive frames gets the level downgraded: the loop cannot go on
\* rendering frames for ever at one level above 'potato', adaptive quality
\* on, with every FPS measurement below the minimum.
C19_LowFpsDowngrades ==
    \A level \in QualityLevels \ {"potato"} :
        ~<>[](/\ loop.phase = "running"
              /\ qm.adaptiveEnabled
              /\ qm.currentLevel = level
              /\ pm.performanceState # "good"
              /\ pm.fps < minAcceptableFps)

\* C20: no automatic quality change happens within the cooldown after a
\* quality change: when a frame changes the level and the level has been
\* changed before, at least adaptiveCooldown has passed since that change.
C20_CooldownRespected ==
    [][ (/\ call'.op = "frame"
         /\ qm'.currentLevel # qm.currentLevel
         /\ qm.previousLevel # qm.currentLevel)
        => qm.sinceAdjustment >= adaptiveCooldown ]_vars

\* the parameters a quality preset assigns
PresetControlled(p) ==
    <<p.maxSteps, p.stepSize, p.resolution, p.showJets, p.showPhotonRing,
      p.showErgosphere, p.diskEnabled, p.currentLevel>>

C23_LevelConsistent ==
    /\ [](qm.exists =>
            /\ qm.currentLevel \in QualityLevels
            /\ params.currentLevel = qm.currentLevel
            /\ pm.qualityLevel = qm.currentLevel)
    /\ [][ (/\ call'.op = "setQuality"
             /\ loop'.calls = loop.calls + 1
             /\ (call'.level \notin QualityLevels \/ call'.level = qm.currentLevel))
            => /\ qm' = qm /\ pm' = pm /\ params' = params
               /\ ~call'.threw
               /\ call'.notified = <<>> ]_vars

C23_Witness ==
    /\ call.op = "setQuality"
    /\ call.level = "extreme"
    /\ loop.phase = "stopped"
    /\ qm.currentLevel = "medium"
    /\ pm.qualityLevel = "medium"
    /\ params.currentLevel = "medium"

\* C24: downgrade() moves the quality exactly one level down the order
\* ultra, high, medium, low, potato and returns true, except at 'potato'
\* where it returns false and changes nothing; upgrade() does the same one
\* level up, returning false and changing nothing at 'ultra'.
C24_OneStepAndResult ==
    /\ call.op = "downgrade" =>
          IF call.from = "potato"
          THEN ~call.threw /\ call.ret = FALSE /\ qm.currentLevel = call.from
          ELSE /\ IndexOf(qm.currentLevel) = IndexOf(call.from) + 1
               /\ ~call.threw
               /\ call.ret = TRUE
    /\ call.op = "upgrade" =>
          IF call.from = "ultra"
          THEN ~call.threw /\ call.ret = FALSE /\ qm.currentLevel = call.from
          ELSE /\ IndexOf(qm.currentLevel) = IndexOf(call.from) - 1
               /\ ~call.threw
               /\ call.ret = TRUE

(***************************************************************************)
(* Properties of the automatic upgrade (WatchedQualitySpec)                *)
(***************************************************************************)
\* C22: an automatic upgrade happens only after 300 consecutive frames of
\* high FPS (fps >= targetFps - 5) counted since the last quality change,
\* and it raises the level by exactly one step.
C22_UpgradeAfterHighRun ==
    [][ (/\ call'.op = "frame"
         /\ IndexOf(qm'.currentLevel) < IndexOf(qm.currentLevel))
        => /\ qm.highFpsFrames + 1 >= highFpsThreshold
           /\ loop.pure
           /\ IndexOf(qm'.currentLevel) = IndexOf(qm.currentLevel) - 1 ]_vars

(***************************************************************************)
(* Properties of the guided tour (TourSpec / FairTourSpec / KeysSpec)      *)
(***************************************************************************)
\* C27: after any sequence of tour operations and frame updates the time
\* controller's state is PLAYING exactly when its keyframe manager is
\* playing.
C27_PlayingIffManagerPlays ==
    (tour.state = PLAYING) <=> tour.isPlaying

\* a frame update has completed a playing sequence
C27_Witness ==
    /\ tour.op = "frame" /\ tour.completed = 1
    /\ tour.state = IDLE /\ ~tour.isPlaying
    /\ tour.currentTour = "educationalTour"

\* a loaded, non-looping sequence is playing and the last thing that
\* happened was a frame
LeftPlaying ==
    /\ tour.op = "frame" /\ tour.state = PLAYING
    /\ ~tour.isLooping /\ tour.currentTour # "none"

\* the last frame completed the run: clock at the duration, controller
\* IDLE, onTourComplete called once
CompletedRun ==
    /\ tour.op = "frame" /\ tour.completed = 1
    /\ tour.state = IDLE /\ ~tour.isPlaying
    /\ tour.currentTime = tour.duration

\* a control was used, so the sequence was not left playing
Interrupted == tour.op # "frame"

\* onTourComplete is called once by the frame that takes the controller
\* from PLAYING to IDLE with the clock at the duration, by no other frame
\* and by no control; a frame of a looping sequence never completes it
CompletionSteps ==
    [][ /\ tour'.op = "frame" =>
              /\ tour'.completed = IF tour.state = PLAYING /\ tour'.state = IDLE
                                   THEN 1 ELSE 0
              /\ tour'.completed = 1 =>
                     (tour'.currentTime = tour'.duration /\ ~tour'.isPlaying)
        /\ tour'.op # "frame" => tour'.completed = 0
        /\ (tour.isLooping /\ tour'.op = "frame") =>
              (tour'.completed = 0 /\ tour'.state = tour.state) ]_vars

C29_ClockInRange ==
    /\ tour.currentTime # NaN
    /\ 0 <= tour.currentTime /\ tour.currentTime <= tour.duration
    /\ KeyframeManager_getProgress(tour) # NaN
    /\ 0 <= KeyframeManager_getProgress(tour)
    /\ KeyframeManager_getProgress(tour) <= One

\* play() leaves the clock where it was, and the first frame after it
\* advances the clock by that frame's own time step only
ResumesWherePaused ==
    [][ /\ (tour'.op \in {"play", "togglePlayPause"} /\ tour.state = PAUSED) =>
              (tour'.state = PLAYING /\ tour'.currentTime = tour.currentTime)
        /\ (/\ tour.op \in {"play", "togglePlayPause"} /\ tour.state = PLAYING
            /\ tour'.op = "frame"
            /\ FLt(FAdd(tour.currentTime, FMul(tour'.dt, tour.playbackSpeed)),
                   tour.duration))
           => tour'.currentTime =
                 FAdd(tour.currentTime, FMul(tour'.dt, tour.playbackSpeed)) ]_vars

\* C30 as stated: while the tour is paused or idle a frame update neither
\* advances the animation clock nor writes any simulation parameter, and
\* after pause followed by play the clock continues from the time at
\* which it was paused.
C30_AsStated ==
    /\ [][ (tour.state # PLAYING /\ tour'.op = "frame") =>
              /\ tour'.currentTime = tour.currentTime
              /\ tour'.wrote = {}
              /\ params' = params ]_vars
    /\ ResumesWherePaused

\* C30: while the tour is paused or idle a frame update neither advances
\* the animation clock nor writes any animated value; the only simulation
\* parameter it writes is the camera angle phi, and only while
\* auto-rotation is enabled.  After pause followed by play the clock
\* continues from the time at which it was paused (time spent paused is
\* not added).
C30_PausedFramesOnlyAutoRotate ==
    /\ [][ (tour.state # PLAYING /\ tour'.op = "frame") =>
              /\ tour'.currentTime = tour.currentTime
              /\ tour'.wrote = {}
              /\ [params' EXCEPT !.cameraPhi = params.cameraPhi] = params
              /\ ~params.autoRotate => params' = params ]_vars
    /\ ResumesWherePaused

\* a demo was paused part-way, time has passed in frames that turned the
\* camera, and the clock is where it was
C30_Witness ==
    /\ tour.op = "frame" /\ tour.state = PAUSED
    /\ tour.currentTime > 0 /\ tour.currentTime < tour.duration
    /\ tour.sinceUpdate >= 2 * One
    /\ params.autoRotate /\ params.cameraPhi > 0

====
